---- MODULE Spec2Model ----
(***************************************************************************)
(* Model of the cursor-synchronized execution driver of the scene preview  *)
(* (app/renderer/sceneStateEvaluator.js): evaluateAtLine compiles the ink  *)
(* project, runToCursor steps the story up to the cursor line, choosing at *)
(* each choice point the branch chooseBranchIndex finds by probing, and    *)
(* the variable snapshot goes to the SceneView.  Spec is one evaluation,   *)
(* ServiceSpec the evaluator in use (debounced requests, evaluations one   *)
(* after another), PureSpec its functions applied to drawn arguments,     *)
(* ViewSpec the SceneView (app/renderer/sceneView.js) called on its own;   *)
(* FairSpec and FairServiceSpec add the fairness of the running code.      *)
(*                                                                         *)
(* The ink engine (inkjs) is an external collaborator.  A compiled story   *)
(* is modelled as a finite program of nodes; the engine's calls (Continue, *)
(* ChooseChoiceIndex, ToJson, LoadJson, currentDebugMetadata, ...) follow  *)
(* the contract the driver relies on.                                      *)
(***************************************************************************)
EXTENDS Integers, Sequences, FiniteSets, TLC

\* ------------------------------------------------------------------ bounds
\* Source lines of the generated stories range over 0..MaxLine (0 is the
\* default line number of a metadata object that was never filled in).
MaxLine == 3
\* Largest number of choices offered at a generated choice point.
MaxChoices == 3
\* Largest number of content units of a generated story without choices.
MaxUnits == 2
\* Largest number of characters of a generated path.
MaxPathLen == 3
\* Largest number of entries of a generated asset registry file.
MaxEntries == 2

\* --------------------------------------------------------- program constants
MAX_STEPS == 10000

\* ------------------------------------------------------------- JS values
\* A JavaScript value: t is its type tag, v its payload printed as a
\* string; for an ink value object (t = "box") pt is the type of the
\* payload held in its "value" property.
JsVal(t, pt, v) == [t |-> t, pt |-> pt, v |-> v]
JsNull == JsVal("null", "", "")
JsStr(s) == JsVal("string", "", s)
InkStr(s) == JsVal("box", "string", s)

\* A path is the sequence of its characters; <<>> stands for a path that
\* is null, undefined or "" (all falsy in the source).
NoPath == <<>>
PathA == <<"a">>
PathDirA == <<"d", "/", "a">>
PathB == <<"b">>
PathC == <<"c">>

\* Debug metadata; present = FALSE models currentDebugMetadata === null.
DM(line, file) ==
    [present |-> TRUE, startLineNumber |-> line, endLineNumber |-> line,
     fileName |-> file, sourceName |-> NoPath]
NoDm ==
    [present |-> FALSE, startLineNumber |-> 0, endLineNumber |-> 0,
     fileName |-> NoPath, sourceName |-> NoPath]

VarNames == {"bg", "npc"}
NoSet == <<>>

\* ------------------------------------------------------- story programs
\* A node of a compiled story.  kind "text": one unit of linear content
\* (Continue executes its assignment `set`, leaves the debug metadata dm
\* current and moves to next); kind "fault": content whose execution
\* raises; kind "notice": a unit whose execution reports a runtime error
\* or warning; kind "stop": no content.  branches are the choices the
\* engine offers at the node; position 0 is the end of the story.
Branch(dm, target) == [dm |-> dm, target |-> target]
Text(dm, set, next) ==
    [dm |-> dm, set |-> set, next |-> next, kind |-> "text", branches |-> <<>>]
ChoicePoint(branches) ==
    [dm |-> NoDm, set |-> NoSet, next |-> 0, kind |-> "stop", branches |-> branches]
Fault ==
    [dm |-> NoDm, set |-> NoSet, next |-> 0, kind |-> "fault", branches |-> <<>>]
Noticed(dm, set, next) ==
    [dm |-> dm, set |-> set, next |-> next, kind |-> "notice", branches |-> <<>>]
\* A unit of content at which choices are already offered.
TextWithChoices(dm, set, next, branches) ==
    [dm |-> dm, set |-> set, next |-> next, kind |-> "text", branches |-> branches]

InitVars == [n \in VarNames |-> JsNull]

\* An engine call that raises: call is its name, arg the choice index it
\* raises for (ChooseChoiceIndex) or -1 for every call.
Failure(call, arg) == [call |-> call, arg |-> arg]

\* A compiled story: its nodes, the variables whose read raises, the
\* engine calls that raise, and how story.state answers ("ok", "absent":
\* story.state is null, "unserializable": ToJson gives nothing).
ProgramWith(prog, unreadable, raises, access) ==
    [prog |-> prog, unreadable |-> unreadable, raises |-> raises, access |-> access]
Program(prog, unreadable) == ProgramWith(prog, unreadable, {}, "ok")

\* ------------------------------------------------------------ the engine
\* The execution state the engine owns: position in the program, current
\* debug metadata, the variables, and the turn counter every choice bumps.
EngineState(pos, dm, vars, turnIndex) ==
    [dm |-> dm, pos |-> pos, vars |-> vars, turnIndex |-> turnIndex]

\* onError tells whether a handler for runtime errors and warnings is
\* installed on the story.
NoStory ==
    [prog |-> <<>>, unreadable |-> {}, raises |-> {}, access |-> "ok",
     onError |-> FALSE, state |-> EngineState(0, NoDm, InitVars, 0)]

\* compiler.Compile(): a fresh story at the start of the program.
Compile(program) ==
    [prog |-> program.prog, unreadable |-> program.unreadable,
     raises |-> program.raises, access |-> program.access, onError |-> FALSE,
     state |-> EngineState(IF Len(program.prog) = 0 THEN 0 ELSE 1, NoDm, InitVars, 0)]

CurrentNode(story) ==
    IF story.state.pos = 0 THEN ChoicePoint(<<>>) ELSE story.prog[story.state.pos]

\* The engine call raises (arg is the index of a ChooseChoiceIndex, 0 for
\* the other calls).
Raises(story, call, arg) ==
    \E f \in story.raises : f.call = call /\ (f.arg = -1 \/ f.arg = arg)

\* The value an engine call throws: an Error with the call's name as its
\* message; string is String(e).
Thrown(message) == [message |-> message, string |-> <<"Error: ">> \o message]

\* story.canContinue
canContinue(story) == CurrentNode(story).kind \in {"text", "fault", "notice"}

\* story.currentChoices
currentChoices(story) == CurrentNode(story).branches

\* story.currentDebugMetadata
currentDebugMetadata(story) == story.state.dm

\* story.Continue() raises at this position: the content raises, the call
\* is one that raises, or the content reports a runtime error and no
\* handler is installed to take it.
ContinueRaises(story) ==
    \/ CurrentNode(story).kind = "fault"
    \/ Raises(story, "Continue", 0)
    \/ CurrentNode(story).kind = "notice" /\ ~story.onError

\* story.Continue(): executes one unit of content.
Continue(story) ==
    LET node == CurrentNode(story)
        vars == IF node.set = NoSet THEN story.state.vars
                ELSE [story.state.vars EXCEPT ![node.set[1]] = node.set[2]]
    IN [story EXCEPT !.state =
            EngineState(node.next, node.dm, vars, story.state.turnIndex)]

\* story.ChooseChoiceIndex(i), i counted from 0: enters the branch.
ChooseChoiceIndex(story, i) ==
    LET b == currentChoices(story)[i + 1]
    IN [story EXCEPT !.state =
            EngineState(b.target, b.dm, story.state.vars, story.state.turnIndex + 1)]

\* story.state.ToJson(): the serialized state, a list of its parts with
\* the variables under variablesState.
ToJson(story) ==
    <<story.state.pos, story.state.turnIndex, story.state.dm,
      [variablesState |-> story.state.vars]>>

\* story.state.LoadJson(json): the state parsed back from the list.
LoadJson(story, json) ==
    [story EXCEPT !.state =
        EngineState(json[1], json[3], json[4].variablesState, json[2])]

\* story.variablesState.GetVariableWithName(name) raises for this name
GetVariableRaises(story, name) == name \in story.unreadable

\* story.variablesState.GetVariableWithName(name)
GetVariableWithName(story, name) == story.state.vars[name]

\* -------------------------------------------------- sceneStateEvaluator.js
\* The last index of a path separator in path, 0 if there is none.
LastSeparator(path) ==
    LET seps == {i \in 1..Len(path) : path[i] \in {"/", "\\"}}
    IN IF seps = {} THEN 0 ELSE CHOOSE i \in seps : \A j \in seps : j <= i

\* Variant: the match is not greedy, what follows the first separator is
\* kept.
BasenameAfterFirst(path) ==
    LET seps == {i \in 1..Len(path) : path[i] \in {"/", "\\"}}
        first == IF seps = {} THEN 0 ELSE CHOOSE i \in seps : \A j \in seps : i <= j
    IN SubSeq(path, first + 1, Len(path))

\* path.replace(/^.*[/\\]/, ""): the final path component.
Basename(path) == SubSeq(path, LastSeparator(path) + 1, Len(path))

fileMatchesCursor(dm, cursorFilePath) ==
    IF ~dm.present THEN FALSE
    ELSE LET name == IF dm.fileName # NoPath THEN dm.fileName ELSE dm.sourceName
         IN IF name = NoPath THEN TRUE
            ELSE IF cursorFilePath = NoPath THEN TRUE
            ELSE IF name = cursorFilePath THEN TRUE
            ELSE Basename(name) = Basename(cursorFilePath)

NoInfo == [line |-> 0, present |-> FALSE, endLine |-> 0, fileMatch |-> FALSE]

getCurrentLine(story, cursorFilePath) ==
    LET dm == currentDebugMetadata(story)
    IN IF ~dm.present THEN NoInfo
       ELSE [line |-> dm.startLineNumber, present |-> TRUE,
             endLine |-> dm.endLineNumber,
             fileMatch |-> fileMatchesCursor(dm, cursorFilePath)]

\* var vars = {}
NoVars == [name \in {} |-> JsNull]

coerceValue(val) ==
    IF val.t \in {"null", "undefined"} THEN JsNull
    ELSE IF val.t = "box" THEN JsVal(val.pt, "", val.v)
    ELSE val

\* Variant: the first read that fails ends the loop over the names with
\* nothing kept.
ReadNamesAbort(story, names) ==
    IF \E name \in names : GetVariableRaises(story, name) THEN {} ELSE names

\* The names the loop of snapshotVariablesState keeps (lines 75-83): a
\* read that raises is caught and the name skipped.
ReadNames(story, names) == {name \in names : ~GetVariableRaises(story, name)}

\* The try block of snapshotVariablesState (lines 64-83): raised when an
\* exception leaves it, vars the mapping built so far.
SnapshotTry(story) ==
    IF story.access = "absent" THEN [vars |-> NoVars, raised |-> FALSE]
    ELSE IF Raises(story, "ToJson", 0) THEN [vars |-> NoVars, raised |-> TRUE]
    ELSE IF story.access = "unserializable" THEN [vars |-> NoVars, raised |-> FALSE]
    ELSE LET stateObj == ToJson(story)
             vs == stateObj[4].variablesState
             names == DOMAIN vs
         IN [vars |-> [name \in ReadNames(story, names) |->
                          coerceValue(GetVariableWithName(story, name))],
             raised |-> FALSE]

\* Variant: the exception leaves snapshotVariablesState.
SnapshotUncaught(outcome) == outcome

\* The catch of snapshotVariablesState (lines 84-86): the exception is
\* dropped and vars returned.
SnapshotCaught(outcome) == [vars |-> outcome.vars, raised |-> FALSE]

SnapshotOutcome(story) == SnapshotCaught(SnapshotTry(story))

\* The snapshot is a mapping from the names read without failure to their
\* coerced values.
snapshotVariablesState(story) == SnapshotOutcome(story).vars

\* The start line chooseBranchIndex records for a probed branch:
\* dm.startLineNumber, or Infinity (inf = TRUE) when dm is null or its
\* start line is 0.
RecordedLine(inf, n) == [n |-> n, inf |-> inf]
Infinity == RecordedLine(TRUE, 0)

\* Variant: no start line is ever recorded.
StartLineOfNothing(dm) == Infinity

\* Variant: only a location without file name has its line recorded.
StartLineOfUnnamed(dm) ==
    IF dm.present /\ dm.startLineNumber # 0 /\ dm.fileName = NoPath
    THEN RecordedLine(FALSE, dm.startLineNumber) ELSE Infinity

\* Variant: the line after the start line is recorded.
StartLineOfLineAfter(dm) ==
    IF dm.present /\ dm.startLineNumber # 0
    THEN RecordedLine(FALSE, dm.startLineNumber + 1) ELSE Infinity

\* (dm && dm.startLineNumber) ? dm.startLineNumber : Infinity (line 113)
StartLineOf(dm) ==
    IF dm.present /\ dm.startLineNumber # 0
    THEN RecordedLine(FALSE, dm.startLineNumber) ELSE Infinity

\* Variant: a line never recorded counts as at or before the cursor.
AtOrBeforeOrUnknown(recorded, cursorLine) == recorded.inf \/ recorded.n <= cursorLine

\* Variant: the comparison is strict.
AtOrBeforeStrict(recorded, cursorLine) == ~recorded.inf /\ recorded.n < cursorLine

\* branchStartLines[i] <= cursorLine
AtOrBefore(recorded, cursorLine) == ~recorded.inf /\ recorded.n <= cursorLine

\* The selection loop of chooseBranchIndex from index i on, best being
\* bestBranch so far; lines is indexed from 1 for the source's index 0.
RECURSIVE BestBranchFrom(_, _, _, _)
BestBranchFrom(lines, cursorLine, i, best) ==
    IF i >= Len(lines) THEN best
    ELSE BestBranchFrom(lines, cursorLine, i + 1,
            IF AtOrBefore(lines[i + 1], cursorLine) THEN i ELSE best)

\* Variant: the first branch at or before the cursor line wins.
RECURSIVE FirstBranchFrom(_, _, _)
FirstBranchFrom(lines, cursorLine, i) ==
    IF i >= Len(lines) THEN 0
    ELSE IF AtOrBefore(lines[i + 1], cursorLine) THEN i
    ELSE FirstBranchFrom(lines, cursorLine, i + 1)
BestBranchFirstMatch(lines, cursorLine) == FirstBranchFrom(lines, cursorLine, 0)

BestBranch(lines, cursorLine) == BestBranchFrom(lines, cursorLine, 0, 0)

\* Variant: a single choice is probed like any other.
NoProbeNeededOnlyEmpty(choices) == Len(choices) = 0

\* chooseBranchIndex returns 0 without probing
NoProbeNeeded(choices) == Len(choices) = 0 \/ Len(choices) = 1

\* The state the probing loop chooses in at index i.
ProbeStart(story, saved, i) == IF i > 0 THEN LoadJson(story, saved) ELSE story

\* Variant: the state of the last probe is left in place.
RestoreAfterProbeSkipped(story, saved) == story

\* The state chooseBranchIndex leaves behind after the probing loop.
RestoreAfterProbe(story, saved) == LoadJson(story, saved)

\* Variant: the stop test ignores the file.
ReachedCursorAnyFile(info, line) == info.present /\ info.line >= line

\* Variant: the stop test wants the cursor line passed.
ReachedCursorPassed(info, line) == info.present /\ info.fileMatch /\ info.line > line

\* The stop test of runToCursor after a Continue.
ReachedCursor(info, line) == info.present /\ info.fileMatch /\ info.line >= line

\* Variant: the loop runs one iteration more.
StepsLeftInclusive(n) == n <= MAX_STEPS

\* The loop condition of runToCursor.
StepsLeft(n) == n < MAX_STEPS

\* Variant: the snapshot taken before the latest Continue is returned.
BudgetResultPrev(last, prev) == prev

\* What runToCursor returns when the loop condition fails.
BudgetResult(last, prev) == last

\* Variant: the end of the story returns the snapshot taken before the
\* latest Continue.
EndResultPrev(s, prev) == prev

\* What runToCursor returns at the end of the story: prev is prevVars.
EndResult(s, prev) == snapshotVariablesState(s)

\* ---------------------------------------------------------------- SceneView
View(call, variables, message) ==
    [call |-> call, message |-> message, variables |-> variables]
\* A message is the list of its pieces of text.
NoMessage == <<>>
updateScene(variables) == View("updateScene", variables, NoMessage)
showError(message) == View("showError", NoVars, message)
clear == View("clear", NoVars, NoMessage)

\* The two elements of the page the SceneView writes to.  An element is
\* present or not in the document; hidden tells whether it carries the
\* class "hidden"; content is its innerHTML or textContent.
Element(present, hidden, content) ==
    [present |-> present, hidden |-> hidden, content |-> content]
Content(kind, items, text) == [kind |-> kind, items |-> items, text |-> text]
NoItems == [name \in {} |-> ""]
Blank == Content("blank", NoItems, NoMessage)
Page(el, errEl) == [el |-> el, errEl |-> errEl]

\* The strings of the model are single characters or free of the
\* characters replaced.
escapeHtml(str) ==
    CASE str = "&" -> "&amp;"
      [] str = "<" -> "&lt;"
      [] str = ">" -> "&gt;"
      [] str = "\"" -> "&quot;"
      [] OTHER -> str

\* val === null || val === undefined ? "null" : String(val)
Display(val) == IF val.t \in {"null", "undefined"} THEN "null" ELSE val.v

\* updateScene (lines 13-40); an argument that is no object is rendered
\* as the object without names is.
AfterUpdateScene(page, variables) ==
    Page(IF ~page.el.present THEN page.el
         ELSE Element(TRUE, FALSE,
                IF DOMAIN variables = {}
                THEN Content("No variables", NoItems, NoMessage)
                ELSE Content("list",
                        [name \in DOMAIN variables |->
                            escapeHtml(Display(variables[name]))],
                        NoMessage)),
         IF ~page.errEl.present THEN page.errEl ELSE Element(TRUE, TRUE, Blank))

\* Variant: the panel of variables is left as it is.
AfterShowErrorPanelKept(page, message) ==
    Page(page.el,
         IF ~page.errEl.present THEN page.errEl
         ELSE Element(TRUE, FALSE, Content("text", NoItems, message)))

\* showError (lines 48-59)
AfterShowError(page, message) ==
    Page(IF ~page.el.present THEN page.el ELSE Element(TRUE, TRUE, Blank),
         IF ~page.errEl.present THEN page.errEl
         ELSE Element(TRUE, FALSE,
                Content("text", NoItems,
                        IF message # NoMessage THEN message
                        ELSE <<"Unknown error">>)))

\* clear (lines 61-72)
AfterClear(page) ==
    Page(IF ~page.el.present THEN page.el
         ELSE Element(TRUE, FALSE,
                Content("Move cursor to evaluate", NoItems, NoMessage)),
         IF ~page.errEl.present THEN page.errEl ELSE Element(TRUE, TRUE, Blank))

\* The page after the call v to the SceneView.
Rendered(page, v) ==
    CASE v.call = "updateScene" -> AfterUpdateScene(page, v.variables)
      [] v.call = "showError" -> AfterShowError(page, v.message)
      [] v.call = "clear" -> AfterClear(page)
      [] OTHER -> page

\* The page before the first call: both elements present, as clear()
\* leaves them.
IdlePage == AfterClear(Page(Element(TRUE, FALSE, Blank), Element(TRUE, TRUE, Blank)))

\* e && e.message ? e.message : String(e)
ErrorText(e) == IF e.message # NoMessage THEN e.message ELSE e.string

\* errors.join("\n")
RECURSIVE Join(_)
Join(errors) ==
    IF Len(errors) = 0 THEN NoMessage
    ELSE IF Len(errors) = 1 THEN <<errors[1]>>
    ELSE <<errors[1], "\n">> \o Join(Tail(errors))

\* ------------------------------------------------------- the asset registry
\* assetRegistry.js.  The tgg project on disk: root tells whether tggRoot
\* exists, file whether scripts/asset_registry.gd is absent, there but
\* unreadable, or readable ("ok"), content what it holds: the entries of
\* its ASSETS dictionary, in the order of the file.
\* "assetId": "scheme://resPath"
Entry(assetId, scheme, resPath) ==
    [assetId |-> assetId, scheme |-> scheme, resPath |-> resPath]
Entries ==
    {Entry(a, s, r) : a \in {"bg1", "npc1"}, s \in {"res", "user"},
                      r \in {"x.png", "y.png"}}

Disk(root, file, content) == [file |-> file, content |-> content, root |-> root]
NoTgg == Disk(FALSE, "absent", <<>>)

\* path.join(assetsRoot, resPath)
AbsPath(resPath) == <<"tgg", "/", resPath>>

\* parseRegistryFile(content) from entry k on (lines 72-83): only entries
\* of the form "id": "res://path" match, and a later entry of an id
\* replaces an earlier one.
RECURSIVE ParseFrom(_, _, _)
ParseFrom(content, k, map) ==
    IF k > Len(content) THEN map
    ELSE LET e == content[k]
         IN ParseFrom(content, k + 1,
                IF e.scheme # "res" THEN map
                ELSE [a \in DOMAIN map \cup {e.assetId} |->
                        IF a = e.assetId THEN AbsPath(e.resPath) ELSE map[a]])

\* assetMap = {}
NoAssets == [a \in {} |-> <<>>]

parseRegistryFile(content) == ParseFrom(content, 1, NoAssets)

\* loadError: null, or a message.
ErrorOf(isNull, text) == [text |-> text, isNull |-> isNull]
NoError == ErrorOf(TRUE, <<>>)

\* The module state reloadRegistry leaves (lines 88-116) on the disk d.
Registry(map, loaded, error) ==
    [assetMap |-> map, registryLoaded |-> loaded, loadError |-> error]

\* Variant: a load that fails keeps the assets of the load before.
ReloadedKeepingAssets(d, before) ==
    IF ~d.root
    THEN Registry(before, FALSE,
                  ErrorOf(FALSE, <<"TGG project not found at: ", "tgg">>))
    ELSE IF d.file = "absent"
    THEN Registry(before, FALSE,
                  ErrorOf(FALSE, <<"asset_registry.gd not found at: ", "tgg">>))
    ELSE IF d.file = "unreadable"
    THEN Registry(before, FALSE,
                  ErrorOf(FALSE, <<"Failed to read asset_registry.gd: ", "EACCES">>))
    ELSE Registry(parseRegistryFile(d.content), TRUE, NoError)

Reloaded(d, before) ==
    IF ~d.root
    THEN Registry(NoAssets, FALSE,
                  ErrorOf(FALSE, <<"TGG project not found at: ", "tgg">>))
    ELSE IF d.file = "absent"
    THEN Registry(NoAssets, FALSE,
                  ErrorOf(FALSE, <<"asset_registry.gd not found at: ", "tgg">>))
    ELSE IF d.file = "unreadable"
    THEN Registry(NoAssets, FALSE,
                  ErrorOf(FALSE, <<"Failed to read asset_registry.gd: ", "EACCES">>))
    ELSE Registry(parseRegistryFile(d.content), TRUE, NoError)

\* What a call of the registry answers: null, a path, a message, a
\* boolean, or a function (a member of Object.prototype).
Answer(kind, text) == [kind |-> kind, text |-> text]
Null == Answer("null", <<>>)

\* The names every object literal inherits from Object.prototype.
ObjectPrototype == {"constructor", "toString", "hasOwnProperty"}

\* Variant: only the map's own entries are looked up.
GetOwn(map, key) ==
    IF key \in DOMAIN map THEN Answer("path", map[key]) ELSE Null

\* assetMap[assetId] || null (line 125), assetMap being an object literal.
Get(map, key) ==
    IF key \in DOMAIN map THEN Answer("path", map[key])
    ELSE IF key \in ObjectPrototype THEN Answer("function", <<key>>)
    ELSE Null

\* A call of the registry: loadedBefore is registryLoaded as the call
\* found it, reloaded tells whether the call ran reloadRegistry, registered
\* whether assetId was in the map it answered from.
Asked(fn, assetId, loadedBefore, reloaded, registered, answer) ==
    [assetId |-> assetId, fn |-> fn, loadedBefore |-> loadedBefore,
     reloaded |-> reloaded, registered |-> registered, answer |-> answer]
NotAsked == Asked("none", "", FALSE, FALSE, FALSE, Null)

\* ------------------------------------------------------------- the stories
SetBg(s) == <<"bg", InkStr(s)>>
SetNpc(s) == <<"npc", InkStr(s)>>

\* bg = "a", then choice X (branch at line 5, sets bg = "b") and choice Y
\* (branch at line 8, sets bg = "c"); the branch's assignment belongs to
\* its first unit (early) or to the unit of the next line.
ScenarioStory(early) ==
    <<Text(DM(1, NoPath), SetBg("a"), 2),
      ChoicePoint(<<Branch(DM(5, NoPath), 3), Branch(DM(8, NoPath), 5)>>),
      Text(DM(5, NoPath), IF early THEN SetBg("b") ELSE NoSet, 4),
      Text(DM(6, NoPath), IF early THEN NoSet ELSE SetBg("b"), 7),
      Text(DM(8, NoPath), IF early THEN SetBg("c") ELSE NoSet, 6),
      Text(DM(9, NoPath), IF early THEN NoSet ELSE SetBg("c"), 7),
      Text(DM(11, NoPath), NoSet, 0)>>

ScenarioPrograms ==
    {Program(ScenarioStory(early), unreadable) :
        early \in BOOLEAN, unreadable \in {{}, {"npc"}}}

\* One unit without location, then a choice point whose k-th branch has
\* the debug metadata dms[k] and one unit of content that sets npc.
BranchDMs == {NoDm} \cup {DM(l, NoPath) : l \in 0..MaxLine}

ChoiceStory(dms) ==
    <<Text(NoDm, SetBg("a"), 2),
      ChoicePoint([k \in 1..Len(dms) |-> Branch(dms[k], k + 2)])>>
    \o [k \in 1..Len(dms) |-> Text(dms[k], SetNpc(ToString(k)), 0)]

ChoicePrograms ==
    {Program(ChoiceStory(dms), {}) :
        dms \in UNION {[1..n -> BranchDMs] : n \in 1..MaxChoices}}

\* Choice points whose two branches lie in files of their own.
BranchFiles == {NoPath, PathA, PathB}
FiledChoicePrograms ==
    {Program(ChoiceStory(<<DM(l1, f1), DM(l2, f2)>>), {}) :
        l1 \in {1, 2}, l2 \in {2, 3}, f1 \in BranchFiles, f2 \in BranchFiles}

\* Stories without choice points: unit k has the debug metadata dms[k]
\* and sets bg to k.
UnitDMs == {NoDm} \cup {DM(l, f) : l \in 1..MaxLine, f \in {PathA, PathB}}

LinearStory(dms) ==
    [k \in 1..Len(dms) |->
        Text(dms[k], SetBg(ToString(k)), IF k = Len(dms) THEN 0 ELSE k + 1)]

LinearPrograms ==
    {Program(LinearStory(dms), {}) :
        dms \in UNION {[1..n -> UnitDMs] : n \in 1..MaxUnits}}

\* Stories whose content never runs out.
LoopText(file) ==
    <<Text(DM(1, file), SetBg("a"), 2), Text(DM(2, file), SetBg("b"), 1)>>
LoopOneChoice ==
    <<Text(DM(1, NoPath), SetBg("a"), 2), ChoicePoint(<<Branch(DM(1, NoPath), 1)>>)>>
LoopChoiceOnly ==
    <<ChoicePoint(<<Branch(NoDm, 1)>>)>>
LoopTwoChoices ==
    <<Text(DM(1, NoPath), SetBg("a"), 2),
      ChoicePoint(<<Branch(DM(1, NoPath), 1), Branch(DM(2, NoPath), 3)>>),
      Text(DM(2, NoPath), SetBg("b"), 1)>>

LoopPrograms ==
    {Program(p, {}) : p \in {LoopText(NoPath), LoopText(PathB), LoopOneChoice,
                             LoopChoiceOnly, LoopTwoChoices}}

\* A story whose second unit raises.
FaultPrograms == {Program(<<Text(DM(1, NoPath), SetBg("a"), 2), Fault>>, {})}

\* Stories with engine calls that raise: one unit, then a choice point
\* of two branches, each of one unit.
ProbedStory ==
    <<Text(DM(1, NoPath), SetBg("a"), 2),
      ChoicePoint(<<Branch(DM(2, NoPath), 3), Branch(DM(3, NoPath), 4)>>),
      Text(DM(2, NoPath), SetNpc("x"), 0),
      Text(DM(3, NoPath), SetNpc("y"), 0)>>
\* One unit, a single choice, one unit.
SingleChoiceStory ==
    <<Text(DM(1, NoPath), SetBg("a"), 2),
      ChoicePoint(<<Branch(DM(2, NoPath), 3)>>),
      Text(DM(2, NoPath), SetNpc("x"), 0)>>

\* A story whose second unit reports a runtime error.
NoticePrograms ==
    {Program(<<Text(DM(1, NoPath), SetBg("a"), 2),
               Noticed(DM(2, NoPath), SetBg("b"), 3),
               Text(DM(3, NoPath), SetNpc("x"), 0)>>, {})}

\* A story whose first unit already offers the choices of the choice
\* point that follows it.
OfferedEarlyPrograms ==
    {Program(<<TextWithChoices(DM(1, NoPath), SetBg("a"), 2,
                    <<Branch(DM(2, NoPath), 3), Branch(DM(3, NoPath), 4)>>),
               ChoicePoint(<<Branch(DM(2, NoPath), 3), Branch(DM(3, NoPath), 4)>>),
               Text(DM(2, NoPath), SetNpc("x"), 0),
               Text(DM(3, NoPath), SetNpc("y"), 0)>>, {})}

Failures ==
    {Failure(call, -1) :
        call \in {"canContinue", "currentChoices", "currentDebugMetadata",
                  "Continue", "ToJson", "LoadJson", "ChooseChoiceIndex"}}
    \cup {Failure("ChooseChoiceIndex", 1)}

RaisingPrograms ==
    {ProgramWith(p, {}, {f}, "ok") :
        p \in {ProbedStory, SingleChoiceStory}, f \in Failures}

\* Stories whose state object is absent or gives no serialized form.
InaccessiblePrograms ==
    {ProgramWith(p, {}, {}, access) :
        p \in {SingleChoiceStory, ProbedStory}, access \in {"absent", "unserializable"}}

\* A project: loaded is "project && project.mainInk", compile the outcome
\* of compiler.Compile() ("ok", "throws" or "errors"), program what it
\* compiles to, thrown what Compile throws, errors the compiler.errors
\* after it.
ProjectWith(loaded, compile, program, thrown, errors) ==
    [program |-> program, errors |-> errors, loaded |-> loaded,
     compile |-> compile, thrown |-> thrown]
Project(loaded, compile, program) ==
    ProjectWith(loaded, compile, program, Thrown(<<"Compile">>),
                IF compile = "errors" THEN <<"e1", "e2">> ELSE <<>>)
EmptyProgram == Program(<<>>, {})

\* Projects that do not compile: Compile throws an Error after errors
\* were collected, throws a value without message, or returns with one
\* error.
FailingProjects ==
    {ProjectWith(TRUE, "throws", EmptyProgram, Thrown(<<"boom">>), <<"e1", "e2">>),
     ProjectWith(TRUE, "throws", EmptyProgram,
                 [message |-> NoMessage, string |-> <<"oops">>], <<>>),
     ProjectWith(TRUE, "errors", EmptyProgram, Thrown(<<"Compile">>), <<"e1">>)}

CursorLines == 1..(MaxLine + 1)
CursorFiles == {NoPath, PathA, PathDirA}

Request(project, line, file) ==
    [cursorFilePath |-> file, cursorLine |-> line, project |-> project]

\* ------------------------------------------------------------------ state
VARIABLES
    pc,                \* "idle", "loop", "probe", "commit" or "done"
    project,           \* evaluateAtLine's arguments
    cursorLine,
    cursorFilePath,
    story,             \* the compiled story of the evaluation
    steps,             \* runToCursor: steps, lastVars, prevVars
    lastVars,
    prevVars,
    choices,           \* chooseBranchIndex: choices, savedState,
    savedState,        \*   branchStartLines, i
    branchStartLines,
    i,
    idx,               \* runToCursor: idx
    view,              \* the last call made to the SceneView
    dom,               \* the elements of the page the SceneView writes to
    viewCalls,         \* the calls made to the SceneView by the evaluation
    assetMap,          \* assetRegistry.js: asset id -> absolute path
    registryLoaded,    \* assetRegistry.js: the registry file was read
    loadError,         \* assetRegistry.js: the message of the load that failed
    disk,              \* the tgg project on disk, as the registry finds it
    asked,             \* the last call made to the asset registry
    debounceTimer,     \* the timer id evaluateAtCursorDebounced keeps, 0 for null
    \* history, read by the properties only
    exit,              \* how the evaluation ended
    entryState,        \* the engine state when chooseBranchIndex was entered
    probeLog,          \* the engine calls of the current chooseBranchIndex
    nContinue,         \* Continue calls of runToCursor so far
    nCommit,           \* ChooseChoiceIndex calls of runToCursor itself so far
    startVars,         \* the variables when runToCursor was entered
    afterContinue,     \* the variables right after the latest Continue
    firstPast,         \* the variables when a location at or past the cursor
    firstMatch,        \*   line first became current (any file / cursor's file)
    timeouts,          \* the timeouts pending in the host
    reqLog,            \* the evaluateAtCursor requests made
    evalLog,           \* the evaluations that ran
    call               \* the function applied to drawn arguments

vars ==
    <<pc, project, story, cursorLine, cursorFilePath, steps, lastVars, prevVars,
      choices, savedState, branchStartLines, i, idx, view, dom, viewCalls,
      debounceTimer, exit,
      entryState, probeLog, nContinue, nCommit, startVars, afterContinue,
      firstPast, firstMatch, timeouts, reqLog, evalLog, call,
      assetMap, registryLoaded, loadError, disk, asked>>

driverVars == <<steps, lastVars, prevVars>>
probeVars == <<choices, savedState, branchStartLines, i, idx>>
inputVars == <<project, cursorLine, cursorFilePath>>
historyVars ==
    <<entryState, probeLog, nContinue, nCommit, startVars, afterContinue,
      firstPast, firstMatch>>
serviceVars == <<debounceTimer, timeouts, reqLog, evalLog>>

None == [present |-> FALSE, variables |-> NoVars]
Some(variables) == [present |-> TRUE, variables |-> variables]

viewVars == <<view, dom, viewCalls>>
registryVars == <<assetMap, registryLoaded, loadError, disk, asked>>

\* The registry as `Load on first require` (line 144) leaves it on d.
RegistryLoadedFrom(d) ==
    /\ disk = d
    /\ assetMap = Reloaded(d, NoAssets).assetMap
    /\ registryLoaded = Reloaded(d, NoAssets).registryLoaded
    /\ loadError = Reloaded(d, NoAssets).loadError
    /\ asked = NotAsked

\* debounceTimer = null
NoTimer == 0

\* No function is applied.
NoCall ==
    [dm |-> NoDm, story |-> NoStory, cursorFilePath |-> NoPath, raised |-> FALSE,
     fn |-> "none", done |-> FALSE, accepted |-> FALSE, snapshot |-> NoVars]

\* The state of the module and of an evaluation not yet begun.
ModuleInit ==
    /\ pc = "idle"
    /\ project = Project(FALSE, "ok", EmptyProgram)
    /\ story = NoStory
    /\ cursorLine = 1
    /\ cursorFilePath = NoPath
    /\ steps = 0
    /\ lastVars = NoVars
    /\ prevVars = NoVars
    /\ choices = <<>>
    /\ savedState = ToJson(NoStory)
    /\ branchStartLines = <<>>
    /\ i = 0
    /\ idx = 0
    /\ view = View("none", NoVars, NoMessage)
    /\ debounceTimer = NoTimer
    /\ exit = "none"
    /\ entryState = NoStory.state
    /\ probeLog = <<>>
    /\ nContinue = 0
    /\ nCommit = 0
    /\ startVars = NoVars
    /\ afterContinue = None
    /\ firstPast = None
    /\ firstMatch = None
    /\ timeouts = {}
    /\ reqLog = <<>>
    /\ evalLog = <<>>
    /\ viewCalls = 0

EvaluatorInit == ModuleInit /\ dom = IdlePage /\ RegistryLoadedFrom(NoTgg)

Init == EvaluatorInit /\ call = NoCall

\* Variant: the evaluation ends without a call to the SceneView.
FinishSilently(viewCall, how) ==
    /\ pc' = "done"
    /\ exit' = how
    /\ UNCHANGED <<view, dom, viewCalls>>

\* The evaluation ends with this call to the SceneView.
Finish(viewCall, how) ==
    /\ pc' = "done"
    /\ view' = viewCall
    /\ dom' = Rendered(dom, viewCall)
    /\ viewCalls' = viewCalls + 1
    /\ exit' = how

\* Variant: the snapshot taken last is shown.
CaughtShowsSnapshot(e, how) == Finish(updateScene(lastVars), how)

\* The catch of evaluateAtLine (lines 206-208): the message is shown.
Caught(e, how) == Finish(showError(ErrorText(e)), how)

\* The engine call raises inside runToCursor.
Abort(engineCall, how) == Caught(Thrown(<<engineCall>>), how)

\* Variant: the errors the compiler collected are not looked at.
CompilerErrorsIgnored(p) == FALSE

\* compiler.errors && compiler.errors.length > 0 (line 195)
CompilerErrors(p) == Len(p.errors) > 0

\* Variant: a project without main file is evaluated like any other.
NoProjectIgnored(p) == FALSE

\* !project || !project.mainInk (line 172)
NoProject(p) == ~p.loaded

\* Variant: no handler is installed.
InstallOnErrorSkipped(s) == s

\* story.onError = function () {} (line 201)
InstallOnError(s) == [s EXCEPT !.onError = TRUE]

\* Variant: the story of the evaluation before is used again.
StoryKept(program) == IF story = NoStory THEN Compile(program) ELSE story

\* The story an evaluation steps: compiled for it (lines 187-190).
StoryOf(program) == Compile(program)

\* evaluateAtLine(r.cursorLine, r.cursorFilePath, r.project) up to the
\* first iteration of runToCursor.
EvaluateAtLineWith(r) ==
    /\ cursorLine' = r.cursorLine
    /\ cursorFilePath' = r.cursorFilePath
    /\ project' = r.project
    /\ IF NoProject(r.project)
       THEN /\ Finish(clear, "noproject")
            /\ UNCHANGED <<story, driverVars, startVars>>
       ELSE IF r.project.compile = "throws"
       THEN /\ Finish(showError(ErrorText(r.project.thrown)), "compile")
            /\ UNCHANGED <<story, driverVars, startVars>>
       ELSE IF CompilerErrors(r.project)
       THEN /\ Finish(showError(Join(r.project.errors)), "compile")
            /\ UNCHANGED <<story, driverVars, startVars>>
       ELSE /\ story' = InstallOnError(StoryOf(r.project.program))
            /\ steps' = 0
            /\ IF SnapshotOutcome(story').raised
               THEN /\ Abort("ToJson", "exception")
                    /\ UNCHANGED <<lastVars, prevVars, startVars>>
               ELSE /\ lastVars' = snapshotVariablesState(story')
                    /\ startVars' = snapshotVariablesState(story')
                    /\ pc' = "loop"
                    /\ UNCHANGED <<prevVars, viewVars, exit>>
    /\ UNCHANGED <<probeVars, entryState, probeLog, nContinue, nCommit,
                   afterContinue, firstPast, firstMatch>>

\* A call of evaluateAtLine.
EvaluateAtLine ==
    /\ pc = "idle"
    /\ \/ \E p \in ChoicePrograms \cup LinearPrograms \cup FaultPrograms
                    \cup FiledChoicePrograms,
             l \in CursorLines, f \in CursorFiles :
                EvaluateAtLineWith(Request(Project(TRUE, "ok", p), l, f))
       \/ \E p \in ScenarioPrograms, l \in {2, 6, 9}, f \in {NoPath, PathA} :
                EvaluateAtLineWith(Request(Project(TRUE, "ok", p), l, f))
       \/ \E p \in LoopPrograms :
                EvaluateAtLineWith(Request(Project(TRUE, "ok", p), MaxLine + 1, PathA))
       \/ \E loaded \in BOOLEAN, c \in {"ok", "throws", "errors"} :
                EvaluateAtLineWith(Request(Project(loaded, c, EmptyProgram), 1, NoPath))
       \/ \E p \in RaisingPrograms \cup InaccessiblePrograms \cup NoticePrograms
                    \cup OfferedEarlyPrograms, l \in {1, MaxLine + 1} :
                EvaluateAtLineWith(Request(Project(TRUE, "ok", p), l, PathA))
       \/ \E p \in FailingProjects : EvaluateAtLineWith(Request(p, 1, PathA))
       \/ \E p \in LinearPrograms :
                EvaluateAtLineWith(Request(Project(TRUE, "ok", p), 1, PathC))
    /\ UNCHANGED <<serviceVars, call, registryVars>>

\* The variables when a location at or past the cursor line first became
\* current, after the engine moved to s.
NotePast(s, seen, sameFile) ==
    LET dm == currentDebugMetadata(s)
    IN IF ~seen.present /\ dm.present /\ dm.startLineNumber >= cursorLine
          /\ (sameFile => fileMatchesCursor(dm, cursorFilePath))
       THEN Some(snapshotVariablesState(s)) ELSE seen

\* The reads of an iteration of runToCursor (lines 142 and 159) answer.
ReadsAnswer(s) ==
    /\ ~Raises(s, "canContinue", 0)
    /\ canContinue(s) \/ ~Raises(s, "currentChoices", 0)

\* runToCursor, an iteration whose read of canContinue or currentChoices
\* raises.
ReadRaises ==
    /\ pc = "loop"
    /\ StepsLeft(steps)
    /\ ~ReadsAnswer(story)
    /\ steps' = steps + 1
    /\ Abort(IF Raises(story, "canContinue", 0) THEN "canContinue"
             ELSE "currentChoices", "exception")
    /\ UNCHANGED <<story, inputVars, lastVars, prevVars, probeVars, historyVars,
                   serviceVars, call, registryVars>>

\* runToCursor, an iteration that continues (lines 142-157).
ContinueStep ==
    /\ pc = "loop"
    /\ StepsLeft(steps)
    /\ ReadsAnswer(story)
    /\ canContinue(story)
    /\ steps' = steps + 1
    /\ prevVars' = snapshotVariablesState(story)
    /\ IF ContinueRaises(story)
       THEN /\ Abort("Continue", "exception")
            /\ UNCHANGED <<story, lastVars, nContinue, afterContinue,
                           firstPast, firstMatch>>
       ELSE /\ story' = Continue(story)
            /\ nContinue' = nContinue + 1
            /\ afterContinue' = Some(snapshotVariablesState(story'))
            /\ firstPast' = NotePast(story', firstPast, FALSE)
            /\ firstMatch' = NotePast(story', firstMatch, TRUE)
            /\ IF Raises(story', "currentDebugMetadata", 0)
               THEN /\ Abort("currentDebugMetadata", "exception")
                    /\ UNCHANGED lastVars
               ELSE IF ReachedCursor(getCurrentLine(story', cursorFilePath), cursorLine)
               THEN /\ Finish(updateScene(snapshotVariablesState(story')), "reached")
                    /\ UNCHANGED lastVars
               ELSE /\ lastVars' = snapshotVariablesState(story')
                    /\ UNCHANGED <<pc, viewVars, exit>>
    /\ UNCHANGED <<inputVars, probeVars, entryState, probeLog, nCommit, startVars,
                   serviceVars, call, registryVars>>

\* Variant: the choices are looked at whether or not the story can
\* continue.
AtChoicesFirst(s) == Len(currentChoices(s)) > 0

\* The else-if of line 159, reached when story.canContinue is false.
AtChoices(s) == ~canContinue(s) /\ Len(currentChoices(s)) > 0

\* Variant: the driver commits to the first choice whatever idx is.
CommitToFirst(s, index) == ChooseChoiceIndex(s, 0)

\* story.ChooseChoiceIndex(idx) of runToCursor (line 161)
CommitTo(s, index) == ChooseChoiceIndex(s, index)

\* story.state.ToJson() of chooseBranchIndex (line 103) raises.
ProbeSaveRaises(s) == Raises(s, "ToJson", 0) \/ s.access = "absent"

\* runToCursor at a choice point: chooseBranchIndex is entered (lines
\* 159-160 and 98-103).
ChooseBranchEnter ==
    /\ pc = "loop"
    /\ StepsLeft(steps)
    /\ ReadsAnswer(story)
    /\ AtChoices(story)
    /\ steps' = steps + 1
    /\ choices' = currentChoices(story)
    /\ entryState' = story.state
    /\ IF NoProbeNeeded(choices')
       THEN /\ idx' = 0
            /\ pc' = "commit"
            /\ probeLog' = <<>>
            /\ UNCHANGED <<savedState, branchStartLines, i, viewVars, exit>>
       ELSE IF ProbeSaveRaises(story)
       THEN /\ Abort("ToJson", "probing")
            /\ probeLog' = <<>>
            /\ UNCHANGED <<savedState, branchStartLines, i, idx>>
       ELSE /\ savedState' = ToJson(story)
            /\ probeLog' = <<"ToJson">>
            /\ branchStartLines' = <<>>
            /\ i' = 0
            /\ pc' = "probe"
            /\ UNCHANGED <<idx, viewVars, exit>>
    /\ UNCHANGED <<story, inputVars, lastVars, prevVars, nContinue,
                   nCommit, startVars, afterContinue, firstPast, firstMatch,
                   serviceVars, call, registryVars>>

\* The LoadJson the call notes in probeLog, if it changed the state.
Loaded(before, after) == IF after = before THEN <<>> ELSE <<"LoadJson">>

\* chooseBranchIndex, one round of the probing loop (lines 108-115).
\* Every probe bumps the turn counter, so a LoadJson of the saved state
\* always changes the state: probeLog notes a LoadJson where it did.
ProbeBranch ==
    /\ pc = "probe"
    /\ i < Len(choices)
    /\ IF i > 0 /\ Raises(story, "LoadJson", 0)
       THEN /\ Abort("LoadJson", "probing")
            /\ UNCHANGED <<story, branchStartLines, probeLog, i>>
       ELSE IF Raises(story, "ChooseChoiceIndex", i)
       THEN /\ story' = ProbeStart(story, savedState, i)
            /\ probeLog' = probeLog \o Loaded(story, story')
            /\ Abort("ChooseChoiceIndex", "probing")
            /\ UNCHANGED <<branchStartLines, i>>
       ELSE /\ story' = ChooseChoiceIndex(ProbeStart(story, savedState, i), i)
            /\ probeLog' = probeLog
                    \o Loaded(story, ProbeStart(story, savedState, i))
                    \o <<"ChooseChoiceIndex">>
            /\ IF Raises(story', "currentDebugMetadata", 0)
               THEN /\ Abort("currentDebugMetadata", "probing")
                    /\ UNCHANGED <<branchStartLines, i>>
               ELSE /\ branchStartLines' =
                         Append(branchStartLines, StartLineOf(currentDebugMetadata(story')))
                    /\ i' = i + 1
                    /\ UNCHANGED <<pc, viewVars, exit>>
    /\ UNCHANGED <<inputVars, driverVars, choices, savedState, idx,
                   entryState, nContinue, nCommit, startVars, afterContinue,
                   firstPast, firstMatch, serviceVars, call, registryVars>>

\* chooseBranchIndex after the probing loop (lines 117-128).
ProbeFinish ==
    /\ pc = "probe"
    /\ i >= Len(choices)
    /\ IF Raises(story, "LoadJson", 0)
       THEN /\ Abort("LoadJson", "probing")
            /\ UNCHANGED <<story, probeLog, idx>>
       ELSE /\ story' = RestoreAfterProbe(story, savedState)
            /\ probeLog' = probeLog \o Loaded(story, story')
            /\ idx' = BestBranch(branchStartLines, cursorLine)
            /\ pc' = "commit"
            /\ UNCHANGED <<viewVars, exit>>
    /\ UNCHANGED <<inputVars, driverVars, choices, savedState, branchStartLines, i,
                   entryState, nContinue, nCommit, startVars,
                   afterContinue, firstPast, firstMatch, serviceVars, call,
                   registryVars>>

\* runToCursor commits to the branch (line 161).
CommitChoice ==
    /\ pc = "commit"
    /\ IF Raises(story, "ChooseChoiceIndex", idx)
       THEN /\ Abort("ChooseChoiceIndex", "exception")
            /\ UNCHANGED <<story, nCommit, firstPast, firstMatch>>
       ELSE /\ story' = CommitTo(story, idx)
            /\ nCommit' = nCommit + 1
            /\ firstPast' = NotePast(story', firstPast, FALSE)
            /\ firstMatch' = NotePast(story', firstMatch, TRUE)
            /\ pc' = "loop"
            /\ UNCHANGED <<viewVars, exit>>
    /\ UNCHANGED <<inputVars, driverVars, probeVars, entryState,
                   probeLog, nContinue, startVars, afterContinue, serviceVars, call,
                   registryVars>>

\* runToCursor at the end of the story (lines 162-165).
EndOfStory ==
    /\ pc = "loop"
    /\ StepsLeft(steps)
    /\ ReadsAnswer(story)
    /\ ~canContinue(story)
    /\ Len(currentChoices(story)) = 0
    /\ steps' = steps + 1
    /\ Finish(updateScene(EndResult(story, prevVars)), "end")
    /\ UNCHANGED <<story, inputVars, lastVars, prevVars, probeVars, historyVars,
                   serviceVars, call, registryVars>>

\* runToCursor when the loop condition fails (lines 139 and 168).
BudgetExhausted ==
    /\ pc = "loop"
    /\ ~StepsLeft(steps)
    /\ Finish(updateScene(BudgetResult(lastVars, prevVars)), "budget")
    /\ UNCHANGED <<story, inputVars, driverVars, probeVars, historyVars,
                   serviceVars, call, registryVars>>

Next ==
    \/ EvaluateAtLine
    \/ ReadRaises
    \/ ContinueStep
    \/ ChooseBranchEnter
    \/ ProbeBranch
    \/ ProbeFinish
    \/ CommitChoice
    \/ EndOfStory
    \/ BudgetExhausted

Spec == Init /\ [][Next]_vars

\* The evaluation is synchronous: once started it runs to its end.
FairSpec == Spec /\ WF_vars(Next)

\* ------------------------------------------------ the evaluator in use
\* Calls of evaluateAtCursor and evaluateAtLine follow one another, time
\* passes and the timeouts of the host fire; a call comes only between
\* two evaluations, each of which runs to its end once begun.

\* Largest number of calls of evaluateAtCursor and evaluateAtLine.
MaxCalls == 3
\* The quiet interval passes in this many steps of the clock.
TicksPerInterval == 2

DEBOUNCE_MS == 300
Tick == DEBOUNCE_MS \div TicksPerInterval

\* What evaluateAtCursorDebounced is given: project (with loaded = FALSE
\* for null or a project without main file) and whether it has an
\* activeInkFile, of relative path path.
Editor(p, active, path) == [path |-> path, project |-> p, active |-> active]

EditedStory ==
    <<Text(DM(1, PathA), SetBg("a"), 2), Text(DM(3, PathA), SetBg("b"), 0)>>
EditedProject == Project(TRUE, "ok", Program(EditedStory, {}))
ProbedProject == Project(TRUE, "ok", Program(ProbedStory, {}))
NullProject == Project(FALSE, "ok", EmptyProgram)

\* The calls of evaluateAtCursor: no project, a project at two cursor
\* lines, a project without active file, a project without main file.
CursorRequests ==
    {Request(Editor(NullProject, FALSE, NoPath), 1, NoPath),
     Request(Editor(EditedProject, TRUE, PathA), 1, PathA),
     Request(Editor(EditedProject, TRUE, PathA), 3, PathA),
     Request(Editor(EditedProject, FALSE, NoPath), 1, NoPath),
     Request(Editor(NullProject, TRUE, PathA), 1, PathA)}

\* The calls of evaluateAtLine made directly; c is no file of the project.
LineRequests ==
    {Request(EditedProject, 1, PathA),
     Request(EditedProject, 1, PathC),
     Request(ProbedProject, 3, PathA),
     Request(Project(TRUE, "errors", EmptyProgram), 1, PathA)}

\* Calls made as the first call only: a story that never ends, and one
\* whose canContinue raises.
FirstLineRequests ==
    {Request(Project(TRUE, "ok", Program(LoopText(PathB), {})), 1, PathA),
     Request(Project(TRUE, "ok",
                ProgramWith(ProbedStory, {}, {Failure("canContinue", -1)}, "ok")),
             1, PathA)}

\* A timeout of the host: the callback of lines 218-221 with what it
\* closes over, and the time waited since setTimeout.
Timeout(id, r, waited) ==
    [cursorFilePath |-> r.project.path, cursorLine |-> r.cursorLine,
     project |-> r.project.project,
     id |-> id, waited |-> waited]

\* Variant: the pending timeout is left to fire.
ClearTimeoutSkipped(pending, id) == pending

\* clearTimeout(id)
ClearTimeout(pending, id) == {t \in pending : t.id # id}

\* Variant: the timer pending is left alone.
CancelPendingNever(pending, timer) == pending

\* if (debounceTimer) clearTimeout(debounceTimer) (line 212)
CancelPending(pending, timer) ==
    IF timer # NoTimer THEN ClearTimeout(pending, timer) ELSE pending

\* Variant: every request is taken for one without active file.
NoActiveFileEver(e) == TRUE

\* !project || !project.activeInkFile (line 213)
NoActiveFile(e) == ~e.active

\* The record of an evaluation in evalLog: id is the request it ran for
\* (0 for a direct call), waited the time its timeout had waited.
Evaluation(id, r, waited) ==
    [cursorFilePath |-> r.cursorFilePath, cursorLine |-> r.cursorLine,
     project |-> r.project,
     steps |-> 0, view |-> View("none", NoVars, NoMessage), exit |-> "none",
     id |-> id, waited |-> waited, finished |-> FALSE]

Calls == Len(reqLog) + Cardinality({k \in 1..Len(evalLog) : evalLog[k].id = 0})

\* evaluateAtCursorDebounced(r.cursorLine, r.project) (lines 211-222).
\* reqLog notes the request and the timeout that was pending for the
\* request before when it arrived (0 if none).
EvaluateAtCursor ==
    /\ pc = "idle"
    /\ Calls < MaxCalls
    /\ \E r \in CursorRequests :
        LET id == Len(reqLog) + 1
            kept == CancelPending(timeouts, debounceTimer)
        IN /\ reqLog' = Append(reqLog,
                    [cursorLine |-> r.cursorLine, project |-> r.project,
                     supersedes |-> IF \E t \in timeouts : t.id = id - 1
                                    THEN id - 1 ELSE 0])
           /\ IF NoActiveFile(r.project)
              THEN /\ view' = clear
                   /\ dom' = Rendered(dom, clear)
                   /\ timeouts' = kept
                   /\ UNCHANGED debounceTimer
              ELSE /\ debounceTimer' = id
                   /\ timeouts' = kept \cup {Timeout(id, r, 0)}
                   /\ UNCHANGED <<view, dom>>
    /\ UNCHANGED <<pc, story, inputVars, driverVars, probeVars, exit, historyVars,
                   evalLog, call, viewCalls, registryVars>>

\* Time passes while a timeout is pending and none is due.
Elapse ==
    /\ pc = "idle"
    /\ timeouts # {}
    /\ \A t \in timeouts : t.waited < DEBOUNCE_MS
    /\ timeouts' = {[t EXCEPT !.waited = @ + Tick] : t \in timeouts}
    /\ UNCHANGED <<pc, story, inputVars, driverVars, probeVars, viewVars, exit,
                   historyVars, debounceTimer, reqLog, evalLog, call, registryVars>>

\* A timeout is due: its callback runs (lines 219-220).
TimerFires ==
    /\ pc = "idle"
    /\ \E t \in timeouts :
        /\ t.waited >= DEBOUNCE_MS
        /\ timeouts' = timeouts \ {t}
        /\ debounceTimer' = NoTimer
        /\ evalLog' = Append(evalLog,
                Evaluation(t.id, Request(t.project, t.cursorLine, t.cursorFilePath),
                           t.waited))
        /\ EvaluateAtLineWith(Request(t.project, t.cursorLine, t.cursorFilePath))
    /\ UNCHANGED <<reqLog, call, registryVars>>

\* evaluateAtLine called directly.
EvaluateAtLineDirect ==
    /\ pc = "idle"
    /\ Calls < MaxCalls
    /\ \E r \in LineRequests \cup (IF Calls = 0 THEN FirstLineRequests ELSE {}) :
        /\ evalLog' = Append(evalLog, Evaluation(0, r, 0))
        /\ EvaluateAtLineWith(r)
    /\ UNCHANGED <<debounceTimer, timeouts, reqLog, call, registryVars>>

\* evaluateAtLine returns: its locals are gone, the view stays as it is.
\* The story it made is no longer referenced; it is left in place here.
Return ==
    /\ pc = "done"
    /\ pc' = "idle"
    /\ evalLog' = [evalLog EXCEPT ![Len(evalLog)] =
            [@ EXCEPT !.finished = TRUE, !.view = view, !.steps = steps,
                      !.exit = exit]]
    /\ project' = NullProject
    /\ cursorLine' = 1
    /\ cursorFilePath' = NoPath
    /\ steps' = 0
    /\ lastVars' = NoVars
    /\ prevVars' = NoVars
    /\ choices' = <<>>
    /\ savedState' = ToJson(NoStory)
    /\ branchStartLines' = <<>>
    /\ i' = 0
    /\ idx' = 0
    /\ exit' = "none"
    /\ entryState' = NoStory.state
    /\ probeLog' = <<>>
    /\ nContinue' = 0
    /\ nCommit' = 0
    /\ startVars' = NoVars
    /\ afterContinue' = None
    /\ firstPast' = None
    /\ firstMatch' = None
    /\ viewCalls' = 0
    /\ UNCHANGED <<story, view, dom, debounceTimer, timeouts, reqLog, call,
                   registryVars>>

ServiceNext ==
    \/ EvaluateAtCursor
    \/ Elapse
    \/ TimerFires
    \/ EvaluateAtLineDirect
    \/ ReadRaises
    \/ ContinueStep
    \/ ChooseBranchEnter
    \/ ProbeBranch
    \/ ProbeFinish
    \/ CommitChoice
    \/ EndOfStory
    \/ BudgetExhausted
    \/ Return

ServiceSpec == Init /\ [][ServiceNext]_vars

\* What happens without a call from outside: the host's clock advances
\* and runs the callbacks that are due, and an evaluation begun runs on
\* (one thread runs each function to its end).
HostRuns ==
    \/ Elapse
    \/ TimerFires
    \/ ReadRaises
    \/ ContinueStep
    \/ ChooseBranchEnter
    \/ ProbeBranch
    \/ ProbeFinish
    \/ CommitChoice
    \/ EndOfStory
    \/ BudgetExhausted
    \/ Return

FairServiceSpec == ServiceSpec /\ WF_vars(HostRuns)

\* ------------------------------------------------ the SceneView on its own
\* updateScene, showError and clear called in any order on a page whose
\* elements are there or not, shown or not, when the first call comes.
Elements == {Element(FALSE, FALSE, Blank), Element(TRUE, FALSE, Blank),
             Element(TRUE, TRUE, Blank)}
Pages == {Page(el, errEl) : el \in Elements, errEl \in Elements}

ShownValues ==
    {JsNull, JsStr("a"), JsStr("<"), JsVal("number", "", "1"),
     JsVal("boolean", "", "true")}
Snapshots == UNION {[names -> ShownValues] : names \in SUBSET VarNames}
Messages == {NoMessage, <<"boom">>, <<"e1", "\n", "e2">>}

ViewInit ==
    ModuleInit /\ call = NoCall /\ dom \in Pages /\ RegistryLoadedFrom(NoTgg)

\* A call v of the SceneView.
Called(v) ==
    /\ view' = v
    /\ dom' = Rendered(dom, v)
    /\ UNCHANGED <<pc, story, inputVars, driverVars, probeVars, exit, historyVars,
                   serviceVars, call, viewCalls, registryVars>>

UpdateSceneCalled == \E variables \in Snapshots : Called(updateScene(variables))
ShowErrorCalled == \E message \in Messages : Called(showError(message))
ClearCalled == Called(clear)

ViewNext ==
    \/ UpdateSceneCalled
    \/ ShowErrorCalled
    \/ ClearCalled

ViewSpec == ViewInit /\ [][ViewNext]_vars

\* ------------------------------------------- the functions on their own
\* fileMatchesCursor and snapshotVariablesState applied to arguments drawn
\* from bounded sets.
PathChars == {"a", "b", "/", "\\"}
Paths == UNION {[1..n -> PathChars] : n \in 0..MaxPathLen}

\* Debug metadata of line 1 with the given fileName and sourceName.
DMNamed(fileName, sourceName) ==
    [present |-> TRUE, startLineNumber |-> 1, endLineNumber |-> 1,
     fileName |-> fileName, sourceName |-> sourceName]

\* The metadata objects: null, a fileName, or a sourceName only.
Locations ==
    {NoDm}
    \cup {DMNamed(n, s) : n \in Paths \ {NoPath}, s \in {NoPath, PathB}}
    \cup {DMNamed(NoPath, s) : s \in Paths}

\* The values GetVariableWithName gives: null, undefined, primitives, ink
\* value objects (with a "value" property) holding a primitive, null or
\* an object (an ink list, a divert target), and a plain object.
EngineValues ==
    {JsNull,
     JsVal("undefined", "", ""),
     JsVal("number", "", "1"),
     JsStr("a"),
     JsVal("boolean", "", "true"),
     InkStr("a"),
     JsVal("box", "number", "1"),
     JsVal("box", "boolean", "true"),
     JsVal("box", "null", ""),
     JsVal("box", "object", "list"),
     JsVal("object", "", "obj")}

\* A story in a state holding the given variables.
StoryHolding(variables, unreadable, raises, access) ==
    [prog |-> <<>>, unreadable |-> unreadable, raises |-> raises, access |-> access,
     onError |-> FALSE, state |-> EngineState(0, NoDm, variables, 0)]

StoriesHeld ==
    {StoryHolding(variables, unreadable, raises, access) :
        variables \in [VarNames -> EngineValues],
        unreadable \in SUBSET VarNames,
        raises \in {{}, {Failure("ToJson", -1)}},
        access \in {"ok", "absent", "unserializable"}}

FileMatchesCursorCall(dm, path) ==
    [NoCall EXCEPT !.fn = "fileMatchesCursor", !.dm = dm, !.cursorFilePath = path]
SnapshotCall(s) == [NoCall EXCEPT !.fn = "snapshotVariablesState", !.story = s]

PureInit ==
    /\ EvaluatorInit
    /\ \/ \E dm \in Locations, path \in Paths : call = FileMatchesCursorCall(dm, path)
       \/ \E s \in StoriesHeld : call = SnapshotCall(s)

ApplyFileMatchesCursor ==
    /\ call.fn = "fileMatchesCursor"
    /\ ~call.done
    /\ call' = [call EXCEPT !.done = TRUE,
                            !.accepted = fileMatchesCursor(call.dm, call.cursorFilePath)]
    /\ UNCHANGED <<pc, story, inputVars, driverVars, probeVars, viewVars, exit,
                   historyVars, serviceVars, registryVars>>

ApplySnapshotVariablesState ==
    /\ call.fn = "snapshotVariablesState"
    /\ ~call.done
    /\ call' = [call EXCEPT !.done = TRUE,
                            !.raised = SnapshotOutcome(call.story).raised,
                            !.snapshot = SnapshotOutcome(call.story).vars]
    /\ UNCHANGED <<pc, story, inputVars, driverVars, probeVars, viewVars, exit,
                   historyVars, serviceVars, registryVars>>

PureNext ==
    \/ ApplyFileMatchesCursor
    \/ ApplySnapshotVariablesState

PureSpec == PureInit /\ [][PureNext]_vars

\* ------------------------------------------- the asset registry in use
AssetIds == {"", "bg1", "npc1", "constructor"}

RegistryInit ==
    /\ ModuleInit
    /\ dom = IdlePage
    /\ call = NoCall
    /\ \E file \in {"absent", "unreadable", "ok"} :
            RegistryLoadedFrom(Disk(TRUE, file, <<>>))
       \/ RegistryLoadedFrom(NoTgg)

\* The module state becomes r.
Becomes(r) ==
    /\ assetMap' = r.assetMap
    /\ registryLoaded' = r.registryLoaded
    /\ loadError' = r.loadError

\* The module state after `if (!registryLoaded) reloadRegistry()`.
Ensured ==
    IF registryLoaded THEN Registry(assetMap, registryLoaded, loadError)
    ELSE Reloaded(disk, assetMap)

evaluatorVars ==
    <<pc, story, inputVars, driverVars, probeVars, viewVars, exit, historyVars,
      serviceVars, call>>

\* reloadRegistry() (lines 88-116)
ReloadRegistry ==
    /\ Becomes(Reloaded(disk, assetMap))
    /\ asked' = Asked("reloadRegistry", "", registryLoaded, TRUE, FALSE,
                      Answer(IF Reloaded(disk, assetMap).registryLoaded
                             THEN "true" ELSE "false", <<>>))
    /\ UNCHANGED <<disk, evaluatorVars>>

\* resolveAssetPath(assetId) (lines 122-126)
ResolveAssetPath ==
    /\ \E assetId \in AssetIds :
            asked' = Asked("resolveAssetPath", assetId, registryLoaded,
                          ~registryLoaded,
                          assetId \in DOMAIN Ensured.assetMap,
                          IF assetId = "" THEN Null
                          ELSE Get(Ensured.assetMap, assetId))
    /\ Becomes(Ensured)
    /\ UNCHANGED <<disk, evaluatorVars>>

\* getLoadError() (lines 138-141)
GetLoadError ==
    /\ asked' = Asked("getLoadError", "", registryLoaded, ~registryLoaded,
                      FALSE,
                      IF Ensured.loadError.isNull THEN Null
                      ELSE Answer("message", Ensured.loadError.text))
    /\ Becomes(Ensured)
    /\ UNCHANGED <<disk, evaluatorVars>>

\* The writer's project changes on disk between two calls: the project
\* goes or comes, the registry file goes, loses its permissions or is
\* written anew, or gains an entry.
DiskChanges ==
    /\ \/ disk' = NoTgg
       \/ \E file \in {"absent", "unreadable", "ok"} :
            disk' = Disk(TRUE, file, <<>>)
       \/ /\ disk.file = "ok"
          /\ Len(disk.content) < MaxEntries
          /\ \E e \in Entries :
                disk' = Disk(TRUE, "ok", Append(disk.content, e))
    /\ disk' # disk
    /\ UNCHANGED <<assetMap, registryLoaded, loadError, asked, evaluatorVars>>

RegistryNext ==
    \/ ReloadRegistry
    \/ ResolveAssetPath
    \/ GetLoadError
    \/ DiskChanges

RegistrySpec == RegistryInit /\ [][RegistryNext]_vars

\* ------------------------------------------------------------- properties
\* chooseBranchIndex has returned and runToCursor has not yet committed.
Returned == pc = "commit"

\* runToCursor's own ChooseChoiceIndex happens in this step.
Commits == pc = "commit" /\ pc' = "loop"

Last(seq) == seq[Len(seq)]
Count(seq, x) == Cardinality({k \in 1..Len(seq) : seq[k] = x})
Max(S) == CHOOSE x \in S : \A y \in S : y <= x

\* C1: when chooseBranchIndex returns from a choice point with two or
\* more choices, the engine state equals the state at its entry: every
\* choice of the probing has been made, and the last engine call of the
\* probing is the LoadJson of the saved state.
C1_ProbeRestoresState ==
    (Returned /\ Len(choices) >= 2) =>
        /\ story.state = entryState
        /\ Count(probeLog, "ChooseChoiceIndex") = Len(choices)
        /\ Last(probeLog) = "LoadJson"

C1_Witness ==
    /\ Returned
    /\ Len(choices) = 3
    /\ probeLog = <<"ToJson", "ChooseChoiceIndex", "LoadJson", "ChooseChoiceIndex",
                    "LoadJson", "ChooseChoiceIndex", "LoadJson">>
    /\ story.state = entryState

\* The indices (from 0) whose recorded start line is a number <= line.
IndicesAtOrBefore(lines, line) ==
    {k \in 0..(Len(lines) - 1) : ~lines[k + 1].inf /\ lines[k + 1].n <= line}

\* C2: for two or more recorded start lines, in any order, the index
\* chooseBranchIndex returns is the highest one whose recorded start line
\* is <= the cursor line, and 0 when there is none.
C2_HighestIndexAtOrBefore ==
    (Returned /\ Len(choices) >= 2) =>
        /\ Len(branchStartLines) = Len(choices)
        /\ idx = IF IndicesAtOrBefore(branchStartLines, cursorLine) = {} THEN 0
                 ELSE Max(IndicesAtOrBefore(branchStartLines, cursorLine))

\* Lines not ascending: the last branch starts before the first and both
\* are at or before the cursor.
C2_Witness ==
    /\ Returned
    /\ Len(choices) = 3
    /\ IndicesAtOrBefore(branchStartLines, cursorLine) = {0, 2}
    /\ branchStartLines[3].n < branchStartLines[1].n
    /\ idx = 2

\* The choices all have a start line and the lines are strictly ascending.
Ascending(cs) ==
    /\ \A k \in 1..Len(cs) : cs[k].dm.present
    /\ \A k \in 1..(Len(cs) - 1) :
            cs[k].dm.startLineNumber < cs[k + 1].dm.startLineNumber

\* Branch i (from 1) of the claim: L_i <= c < L_(i+1), the last branch
\* when c >= L_k, the first when c < L_1.
BranchOfCursor(cs, c) ==
    IF c < cs[1].dm.startLineNumber THEN 1
    ELSE Max({k \in 1..Len(cs) : cs[k].dm.startLineNumber <= c})

\* C3: at a choice point with two or more branches of strictly ascending
\* start lines, runToCursor commits to the branch the cursor line lies in,
\* and to the first branch when the cursor line precedes them all: the
\* engine is moved by one choice from the state of the choice point into
\* that branch.
C3_CommitsToBranchOfCursor ==
    [][(Commits /\ Len(choices) >= 2 /\ Ascending(choices)) =>
            /\ story.state = entryState
            /\ story'.state.pos = choices[BranchOfCursor(choices, cursorLine)].target
            /\ story'.state.dm = choices[BranchOfCursor(choices, cursorLine)].dm
            /\ story'.state.turnIndex = entryState.turnIndex + 1]_vars

\* The cursor lies in the middle one of three ascending branches, on the
\* branch's very start line, and the driver is in it.
C3_Witness ==
    /\ pc = "loop"
    /\ nCommit = 1
    /\ Len(choices) = 3
    /\ Ascending(choices)
    /\ choices[2].dm.startLineNumber = cursorLine
    /\ story.state.pos = choices[2].target
    /\ story.state.turnIndex = entryState.turnIndex + 1

\* The story of the scenario is being evaluated.
InScenario == \E early \in BOOLEAN : story.prog = ScenarioStory(early)

\* C4: in the scenario (bg = "a", then X at line 5 setting bg = "b" and Y
\* at line 8 setting bg = "c"), cursor line 6 commits to X and the
\* snapshot has bg = "b", cursor line 9 commits to Y and the snapshot has
\* bg = "c", and cursor line 2 resolves the choice point with the first
\* choice.
C4_Scenario ==
    /\ [][(Commits /\ InScenario) =>
            story'.state.pos = choices[IF cursorLine = 9 THEN 2 ELSE 1].target]_vars
    /\ []((pc = "done" /\ InScenario /\ cursorLine \in {6, 9}) =>
            /\ view.call = "updateScene"
            /\ "bg" \in DOMAIN view.variables
            /\ view.variables["bg"] = JsStr(IF cursorLine = 6 THEN "b" ELSE "c"))

C4_Witness ==
    /\ pc = "done"
    /\ InScenario
    /\ cursorLine = 9
    /\ nCommit = 1
    /\ view = updateScene(snapshotVariablesState(story))
    /\ view.variables["bg"] = JsStr("c")

\* The story has no choice point.
NoChoicePoints == \A k \in 1..Len(story.prog) : story.prog[k].branches = <<>>

\* runToCursor has returned a snapshot.
ReturnedSnapshot == pc = "done" /\ exit \in {"reached", "end", "budget"}

\* The snapshot taken after the latest Continue, or the one taken before
\* the loop when there was none.
LastCaptured == IF afterContinue.present THEN afterContinue.variables ELSE startVars

Continues == nContinue' = nContinue + 1

\* The location read after the step is one of the cursor's file at or
\* past the cursor line.
AtCursorNext ==
    /\ ~Raises(story', "currentDebugMetadata", 0)
    /\ story'.state.dm.present
    /\ fileMatchesCursor(story'.state.dm, cursorFilePath)
    /\ story'.state.dm.startLineNumber >= cursorLine

\* No engine call is made in this step.
NoEngineCall == story' = story /\ nContinue' = nContinue /\ nCommit' = nCommit

\* C6: after a Continue runToCursor returns at once exactly when a debug
\* location is available, its file matches the cursor's and its start
\* line is >= the cursor line; it then returns the snapshot taken after
\* that step and makes no further Continue or ChooseChoiceIndex.  (The
\* only other way the run ends after a Continue is the read of the
\* location raising, which returns nothing: C14.)
C6_StopsExactlyWhenReached ==
    /\ [][Continues =>
            /\ (pc' = "done" /\ exit' = "reached") <=> AtCursorNext
            /\ (pc' = "done" /\ exit' # "reached") =>
                    Raises(story', "currentDebugMetadata", 0)
            /\ (pc' = "done" /\ exit' = "reached") =>
                    /\ view' = updateScene(afterContinue'.variables)
                    /\ afterContinue'.variables = snapshotVariablesState(story')]_vars
    /\ [][pc = "done" => (pc' = "done" /\ NoEngineCall)]_vars

\* The run stopped on the cursor line itself, and the step it stopped
\* after changed the variables.
C6_Witness ==
    /\ pc = "done"
    /\ exit = "reached"
    /\ story.state.dm.startLineNumber = cursorLine
    /\ nContinue = 2
    /\ view.variables = snapshotVariablesState(story)
    /\ view.variables # prevVars

\* C7: runToCursor ends after at most MAX_STEPS iterations, each with at
\* most one Continue or one committed choice, whatever the story does;
\* when the step ceiling ends it, the evaluation delivers a snapshot
\* through updateScene, not an error.
C7_EndsWithinStepCeiling ==
    /\ [](steps <= MAX_STEPS /\ nContinue + nCommit <= steps)
    /\ [][steps' # steps => steps' = steps + 1 /\ nContinue' + nCommit' <= nContinue + nCommit + 1]_vars
    /\ <>(pc = "done")
    /\ [](exit = "budget" =>
            pc = "done" /\ steps = MAX_STEPS /\ view.call = "updateScene")

C7_Witness ==
    /\ pc = "done"
    /\ exit = "budget"
    /\ steps = MAX_STEPS
    /\ nContinue = MAX_STEPS
    /\ view.call = "updateScene"

\* C8: when the step budget ends runToCursor, it returns the snapshot
\* taken after the most recent Continue, or the one taken before the loop
\* started if no Continue was executed.
C8_BudgetReturnsLastCaptured ==
    exit = "budget" => view = updateScene(LastCaptured)

C8_Witness ==
    /\ exit = "budget"
    /\ afterContinue.present
    /\ nCommit > 0
    /\ view.variables = afterContinue.variables
    /\ view.variables # prevVars

\* C9: in an iteration where the engine can neither continue nor offers a
\* choice, runToCursor stops and returns a snapshot of the variables as
\* they are then, and makes no further engine call.
C9_EndOfStoryReturnsCurrent ==
    /\ [][(pc = "loop" /\ steps < MAX_STEPS /\ ReadsAnswer(story)
           /\ ~canContinue(story) /\ currentChoices(story) = <<>>) =>
            /\ pc' = "done"
            /\ exit' = "end"
            /\ view' = updateScene(snapshotVariablesState(story))
            /\ NoEngineCall]_vars
    /\ [][exit = "end" => (pc' = "done" /\ NoEngineCall)]_vars

C9_Witness ==
    /\ pc = "done"
    /\ exit = "end"
    /\ nContinue > 0
    /\ nCommit > 0
    /\ view = updateScene(snapshotVariablesState(story))
    /\ view.variables # prevVars

\* C10: at a choice point with exactly one choice chooseBranchIndex
\* returns 0 and makes no engine call (no ToJson, LoadJson or
\* ChooseChoiceIndex), so the driver's commit is the choice of index 0
\* in the state of the choice point.
C10_SingleChoiceNoProbe ==
    /\ []((Returned /\ Len(choices) = 1) =>
            idx = 0 /\ probeLog = <<>> /\ story.state = entryState)
    /\ [][(Commits /\ Len(choices) = 1) =>
            story' = ChooseChoiceIndex([story EXCEPT !.state = entryState], 0)]_vars

C10_Witness ==
    /\ pc = "loop"
    /\ nCommit = 1
    /\ Len(choices) = 1
    /\ probeLog = <<>>
    /\ story.state.pos = choices[1].target
    /\ story.state.turnIndex = 1

\* The compilation of the project fails.
CompileFails == project.loaded /\ (project.compile = "throws" \/ Len(project.errors) > 0)

\* No story was made and runToCursor was not entered.
DriverNeverRan ==
    /\ story = NoStory
    /\ steps = 0
    /\ nContinue = 0
    /\ nCommit = 0
    /\ probeLog = <<>>
    /\ startVars = NoVars

\* C13 as stated: when compilation fails (the compiler throws or reports
\* errors) the error shown is the concatenated list of the compiler's
\* error messages, and the driver never runs.
C13_Original ==
    (pc = "done" /\ CompileFails) =>
        /\ view = showError(Join(project.errors))
        /\ DriverNeverRan

\* C13 (amended): when the compiler throws, showError is called with the
\* message of what was thrown (its string form when it has no message),
\* whatever errors the compiler collected; when the compiler returns
\* with one or more errors, showError is called with these joined by
\* newlines; in both cases runToCursor is never called and no engine
\* step is issued.
C13_CompileFailureShown ==
    (pc = "done" /\ CompileFails) =>
        /\ exit = "compile"
        /\ view.call = "showError"
        /\ view.message =
                IF project.compile # "throws" THEN Join(project.errors)
                ELSE IF project.thrown.message # NoMessage THEN project.thrown.message
                ELSE project.thrown.string
        /\ DriverNeverRan

\* The compiler threw after it had collected two errors: the message of
\* the exception is shown, not the list.
C13_Witness ==
    /\ pc = "done"
    /\ exit = "compile"
    /\ project.compile = "throws"
    /\ project.errors = <<"e1", "e2">>
    /\ view = showError(<<"boom">>)
    /\ DriverNeverRan

\* The engine calls of the story that raise.
RaisingCalls(s) ==
    {f.call : f \in s.raises}
    \cup (IF \E k \in 1..Len(s.prog) : s.prog[k].kind = "fault" THEN {"Continue"} ELSE {})
    \cup (IF s.access = "absent" THEN {"ToJson"} ELSE {})

\* The step runToCursor takes next makes an engine call that raises.
RaisesNow ==
    \/ /\ pc = "loop"
       /\ steps < MAX_STEPS
       /\ \/ Raises(story, "canContinue", 0)
          \/ /\ ~Raises(story, "canContinue", 0)
             /\ canContinue(story)
             /\ ContinueRaises(story) \/ Raises(story, "currentDebugMetadata", 0)
          \/ /\ ~Raises(story, "canContinue", 0)
             /\ ~canContinue(story)
             /\ \/ Raises(story, "currentChoices", 0)
                \/ /\ Len(currentChoices(story)) >= 2
                   /\ Raises(story, "ToJson", 0) \/ story.access = "absent"
    \/ /\ pc = "probe"
       /\ \/ (i > 0 \/ i >= Len(choices)) /\ Raises(story, "LoadJson", 0)
          \/ /\ i < Len(choices)
             /\ \/ Raises(story, "ChooseChoiceIndex", i)
                \/ Raises(story, "currentDebugMetadata", 0)
    \/ pc = "commit" /\ Raises(story, "ChooseChoiceIndex", idx)

\* C14: when an engine call made during stepping raises (Continue,
\* ChooseChoiceIndex, the probe's ToJson or LoadJson, a read of
\* canContinue, currentChoices or currentDebugMetadata), the evaluation
\* ends in that step, showError is called with the message of the
\* exception and updateScene is not called.
C14_EngineExceptionShown ==
    /\ [][RaisesNow <=> (exit = "none" /\ exit' \in {"exception", "probing"})]_vars
    /\ [](exit \in {"exception", "probing"} =>
            /\ pc = "done"
            /\ view.call = "showError"
            /\ view.variables = NoVars
            /\ \E c \in RaisingCalls(story) : view.message = <<c>>)

\* The second LoadJson of the probing raised after the first branch was
\* probed.
C14_Witness ==
    /\ pc = "done"
    /\ exit = "probing"
    /\ probeLog = <<"ToJson", "ChooseChoiceIndex">>
    /\ view = showError(<<"LoadJson">>)

\* C19: the saved pre-choice state is restored on every exit from the
\* probing of chooseBranchIndex: after a probe's ChooseChoiceIndex or a
\* LoadJson raised, the engine state equals the state saved before the
\* probing began.
C19_RestoredOnEveryExit ==
    (pc = "done" /\ exit = "probing" /\ savedState = ToJson([story EXCEPT !.state = entryState])) =>
        story.state = entryState

\* snapshotVariablesState was applied to call.story.
Snapshotted == call.fn = "snapshotVariablesState" /\ call.done

\* The state object of the story can be serialized.
Accessible(s) == s.access = "ok" /\ ~Raises(s, "ToJson", 0)

\* C16: when the read of one variable fails, that variable is left out of
\* the snapshot and every other variable named in the engine state whose
\* read succeeds is in it with its coerced value; the failure does not
\* abort the snapshot.
C16_FailedReadSkipsOneVariable ==
    (Snapshotted /\ Accessible(call.story)) =>
        /\ ~call.raised
        /\ DOMAIN call.snapshot = VarNames \ call.story.unreadable
        /\ \A name \in VarNames \ call.story.unreadable :
                call.snapshot[name] = coerceValue(call.story.state.vars[name])

\* The read of npc failed and bg, an ink string, is in the snapshot as a
\* string.
C16_Witness ==
    /\ Snapshotted
    /\ Accessible(call.story)
    /\ call.story.unreadable = {"npc"}
    /\ call.story.state.vars["bg"] = InkStr("a")
    /\ DOMAIN call.snapshot = {"bg"}
    /\ call.snapshot["bg"] = JsStr("a")

\* C17: snapshotVariablesState never raises: when the state object is
\* absent, cannot be serialized or its serialization throws, it returns
\* the empty mapping, and in every case it returns a mapping.
C17_SnapshotNeverRaises ==
    Snapshotted =>
        /\ ~call.raised
        /\ DOMAIN call.snapshot \subseteq VarNames
        /\ ~Accessible(call.story) => call.snapshot = NoVars

\* ToJson threw on a story holding values and the snapshot is empty.
C17_Witness ==
    /\ Snapshotted
    /\ Raises(call.story, "ToJson", 0)
    /\ call.story.access = "ok"
    /\ call.story.state.vars["bg"] = JsStr("a")
    /\ ~call.raised
    /\ call.snapshot = NoVars

\* The index of the last separator of the path, 0 when it has none.
LastSeparatorIndex(path) ==
    CHOOSE k \in 0..Len(path) :
        /\ k = 0 \/ path[k] \in {"/", "\\"}
        /\ \A j \in (k + 1)..Len(path) : path[j] \notin {"/", "\\"}

\* The final path component: what follows the last '/' or '\\'.
FinalComponent(path) ==
    [j \in 1..(Len(path) - LastSeparatorIndex(path)) |->
        path[LastSeparatorIndex(path) + j]]

\* The file identity a location carries.
FileIdentity(dm) == IF dm.fileName # NoPath THEN dm.fileName ELSE dm.sourceName

\* C18: fileMatchesCursor accepts a debug location when it carries no file
\* identity, when the cursor file path is absent, when the two paths are
\* equal, or when their final path components (after the last '/' or
\* '\\') are equal, and rejects in every other case.
C18_FileMatchRule ==
    (call.fn = "fileMatchesCursor" /\ call.done /\ call.dm.present) =>
        (call.accepted <=>
            \/ FileIdentity(call.dm) = NoPath
            \/ call.cursorFilePath = NoPath
            \/ FileIdentity(call.dm) = call.cursorFilePath
            \/ FinalComponent(FileIdentity(call.dm)) = FinalComponent(call.cursorFilePath))

\* Paths that differ, one with both kinds of separator, are accepted on
\* their final component.
C18_Witness ==
    /\ call.fn = "fileMatchesCursor"
    /\ call.done
    /\ call.dm.fileName = <<"/", "\\", "a">>
    /\ call.cursorFilePath = <<"b", "/", "a">>
    /\ call.accepted

\* C20: every value of a snapshot is a number, a string, a boolean or
\* null; an engine value that is unset or not a scalar (a boxed value
\* whose payload is an object) appears as null.
C20_SnapshotValuesScalar ==
    Snapshotted =>
        \A name \in DOMAIN call.snapshot :
            /\ call.snapshot[name].t \in {"number", "string", "boolean", "null"}
            /\ call.story.state.vars[name].t \in {"null", "undefined", "object"}
                    => call.snapshot[name] = JsNull
            /\ (call.story.state.vars[name].t = "box"
                    /\ call.story.state.vars[name].pt \in {"null", "object"})
                    => call.snapshot[name] = JsNull

\* The evaluations of evalLog that have returned.
Finished == {k \in 1..Len(evalLog) : evalLog[k].finished}

\* C11: two evaluations with the same project, cursor line and cursor
\* file produce the same snapshot (the same call to the view) and take
\* the same number of driver steps, whatever evaluations ran in between.
C11_SameInputsSameOutcome ==
    \A j \in Finished, k \in Finished :
        (/\ evalLog[j].project = evalLog[k].project
         /\ evalLog[j].cursorLine = evalLog[k].cursorLine
         /\ evalLog[j].cursorFilePath = evalLog[k].cursorFilePath) =>
            /\ evalLog[j].view = evalLog[k].view
            /\ evalLog[j].steps = evalLog[k].steps
            /\ evalLog[j].exit = evalLog[k].exit

\* The same evaluation ran before and after one of another project, and
\* stepped to the same snapshot both times.
C11_Witness ==
    /\ Len(evalLog) = 3
    /\ Finished = {1, 2, 3}
    /\ evalLog[1].project = EditedProject
    /\ evalLog[2].project = ProbedProject
    /\ evalLog[3].project = EditedProject
    /\ evalLog[1].cursorLine = evalLog[3].cursorLine
    /\ evalLog[1].cursorFilePath = evalLog[3].cursorFilePath
    /\ evalLog[1].view.call = "updateScene"
    /\ evalLog[1].steps > 0
    /\ evalLog[3].view = evalLog[1].view
    /\ evalLog[3].steps = evalLog[1].steps

\* Request k arrived, and the next request arrived before its timer fired.
Superseded(k) == k < Len(reqLog) /\ reqLog[k + 1].supersedes = k

\* The evaluations that ran for request k.
RunsFor(k) == {j \in 1..Len(evalLog) : evalLog[j].id = k}

\* C12: of evaluateAtCursor requests that each arrive before the timer of
\* the request before has fired, only the last is evaluated, once, after
\* the quiet interval of DEBOUNCE_MS following it, with its cursor line
\* and file; no evaluation runs for a superseded request.
C12_DebounceRunsLastRequestOnce ==
    /\ \A j \in 1..Len(evalLog) :
            evalLog[j].id # 0 =>
                /\ ~Superseded(evalLog[j].id)
                /\ evalLog[j].waited >= DEBOUNCE_MS
                /\ evalLog[j].cursorLine = reqLog[evalLog[j].id].cursorLine
                /\ evalLog[j].cursorFilePath = reqLog[evalLog[j].id].project.path
                /\ evalLog[j].project = reqLog[evalLog[j].id].project.project
    /\ \A k \in 1..Len(reqLog) :
            /\ Cardinality(RunsFor(k)) <= 1
            /\ Superseded(k) => RunsFor(k) = {}
            /\ (/\ reqLog[k].project.active
                /\ ~Superseded(k)
                /\ \A t \in timeouts : t.id # k) => Cardinality(RunsFor(k)) = 1

\* Two requests in one burst, for different cursor lines: one evaluation
\* ran, for the second.
C12_Witness ==
    /\ pc = "idle"
    /\ Len(reqLog) = 2
    /\ reqLog[2].supersedes = 1
    /\ reqLog[1].cursorLine = 1
    /\ reqLog[2].cursorLine = 3
    /\ timeouts = {}
    /\ Len(evalLog) = 1
    /\ evalLog[1].finished
    /\ evalLog[1].id = 2
    /\ evalLog[1].cursorLine = 3
    /\ evalLog[1].view.call = "updateScene"

\* The files the project's story was compiled from.
ProjectFiles(p) ==
    {p.program.prog[k].dm.fileName : k \in 1..Len(p.program.prog)} \ {NoPath}

\* The cursor's file is not one of the project's files.
ForeignCursor ==
    /\ ProjectFiles(project) # {}
    /\ cursorFilePath # NoPath
    /\ cursorFilePath \notin ProjectFiles(project)

\* C15 as stated: when no project is loaded, or the cursor's file is not
\* part of the project, the evaluation ends in the cleared state.
C15_Original ==
    (pc = "done" /\ (~project.loaded \/ ForeignCursor)) =>
        /\ view = clear
        /\ exit = "noproject"

\* C15 (amended): evaluateAtLine given no project or a project without
\* main file, and evaluateAtCursor given no project or a project without
\* active file, call clear() and neither showError nor updateScene, and
\* the story is neither compiled nor stepped (evaluateAtCursor schedules
\* no evaluation); a project that has its main file is evaluated whatever
\* the cursor's file path, which is not compared with the project's
\* files.
C15_ClearedWithoutProject ==
    /\ []((pc = "done" /\ ~project.loaded) =>
            /\ view = clear
            /\ exit = "noproject"
            /\ steps = 0
            /\ nContinue = 0
            /\ nCommit = 0
            /\ startVars = NoVars)
    /\ []((pc = "done" /\ project.loaded) => view.call \in {"updateScene", "showError"})
    /\ [][(pc = "idle" /\ pc' = "done" /\ ~project'.loaded) => story' = story]_vars
    /\ [][Len(reqLog') = Len(reqLog) + 1 =>
            IF ~reqLog'[Len(reqLog')].project.active
            THEN /\ view' = clear
                 /\ pc' = "idle"
                 /\ story' = story
                 /\ evalLog' = evalLog
                 /\ timeouts' \subseteq timeouts
            ELSE /\ view' = view
                 /\ \E t \in timeouts' : t.id = Len(reqLog') /\ t.waited = 0]_vars

\* After an evaluation that showed a snapshot, the timer of a request
\* for a project without main file fired and the view was cleared.
C15_Witness ==
    /\ pc = "done"
    /\ exit = "noproject"
    /\ Len(evalLog) = 2
    /\ evalLog[1].view.call = "updateScene"
    /\ evalLog[2].id = Len(reqLog)
    /\ reqLog[Len(reqLog)].project.active
    /\ view = clear

\* The evaluation has called Continue or ChooseChoiceIndex.
Stepped == nContinue > 0 \/ nCommit > 0 \/ probeLog # <<>>

\* The unit about to be continued reports a runtime error, and nothing
\* else about the step fails.
AtNotice ==
    /\ pc = "loop"
    /\ StepsLeft(steps)
    /\ ReadsAnswer(story)
    /\ CurrentNode(story).kind = "notice"
    /\ ~Raises(story, "Continue", 0)
    /\ ~Raises(Continue(story), "currentDebugMetadata", 0)

\* C21: the story an evaluation steps carries the handler for runtime
\* errors from before its first Continue or ChooseChoiceIndex on, and a
\* unit that reports a runtime error is continued like any other: the
\* evaluation is not aborted and showError is not called for it.
C21_NoticesNeverAbort ==
    /\ [](pc \in {"loop", "probe", "commit"} => story.onError)
    /\ [](Stepped => story.onError)
    /\ [][(pc = "idle" /\ story'.onError) => ~Stepped']_vars
    /\ [][AtNotice =>
            /\ story'.state = Continue(story).state
            /\ nContinue' = nContinue + 1
            /\ exit' # "exception"
            /\ view'.call # "showError"]_vars

\* An evaluation continued past the unit that reports a runtime error, to
\* the end of the story, and showed the variables.
C21_Witness ==
    /\ pc = "done"
    /\ exit = "end"
    /\ view.call = "updateScene"
    /\ \E k \in 1..Len(story.prog) : story.prog[k].kind = "notice"
    /\ "npc" \in DOMAIN view.variables

\* An evaluation ran for request k with the cursor line, file and project
\* the request was made with.
RanAsRequested(k) ==
    \E j \in RunsFor(k) :
        /\ evalLog[j].cursorLine = reqLog[k].cursorLine
        /\ evalLog[j].cursorFilePath = reqLog[k].project.path
        /\ evalLog[j].project = reqLog[k].project.project

\* Every request made with an active file so far has been followed by the
\* next request before its timer fired, or has been evaluated.  Both are
\* lasting: reqLog and evalLog only grow.
AllServed ==
    \A k \in 1..Len(reqLog) :
        reqLog[k].project.active => (Superseded(k) \/ RanAsRequested(k))

\* C22: a request of evaluateAtCursor made with an active file leads to
\* an evaluation with its cursor line and file, unless the next request
\* arrives before its timer fires; an evaluation begun runs to its one
\* call to the SceneView with no request, timer or other evaluation in
\* between, and a request arriving later changes no evaluation made: it
\* only cancels the timer pending and sets a new one.
C22_RequestRunsUninterrupted ==
    /\ []<>(pc = "idle" /\ AllServed)
    /\ [][(pc # "idle" /\ pc' = "idle") => (pc = "done" /\ viewCalls = 1)]_vars
    /\ [](pc = "done" => viewCalls = 1)
    /\ [][pc # "idle" =>
            /\ reqLog' = reqLog
            /\ timeouts' = timeouts
            /\ debounceTimer' = debounceTimer
            /\ Len(evalLog') = Len(evalLog)
            /\ pc' # "idle" => inputVars' = inputVars /\ viewCalls' >= viewCalls]_vars
    /\ [][Len(reqLog') > Len(reqLog) =>
            /\ pc = "idle" /\ pc' = "idle"
            /\ evalLog' = evalLog
            /\ story' = story
            /\ reqLog'[Len(reqLog')].project.active =>
                    /\ view' = view
                    /\ \E t \in timeouts' : t.id = Len(reqLog') /\ t.waited = 0]_vars

\* The evaluation of the first request has run and shown the variables; a
\* second request arrived afterwards and its timer is pending.
C22_Witness ==
    /\ pc = "idle"
    /\ Len(reqLog) = 2
    /\ reqLog[2].supersedes = 0
    /\ Len(evalLog) = 1
    /\ evalLog[1].finished
    /\ evalLog[1].id = 1
    /\ evalLog[1].view.call = "updateScene"
    /\ \E t \in timeouts : t.id = 2

\* The calls chooseBranchIndex makes on the engine for n >= 2 choices from
\* probe k on: LoadJson and ChooseChoiceIndex for each probe after the
\* first, LoadJson at the end.
RECURSIVE ProbeCallsFrom(_, _)
ProbeCallsFrom(k, n) ==
    IF k >= n THEN <<"LoadJson">>
    ELSE <<"LoadJson", "ChooseChoiceIndex">> \o ProbeCallsFrom(k + 1, n)
ProbeCalls(n) == <<"ToJson", "ChooseChoiceIndex">> \o ProbeCallsFrom(1, n)

\* The debug location current right after choosing index k at the choice
\* point chooseBranchIndex was entered at.
ProducedBy(k) == choices[k + 1].dm

\* The state chooseBranchIndex was entered in, with choice k chosen.
ChosenAtEntry(k) ==
    [dm |-> choices[k + 1].dm, pos |-> choices[k + 1].target,
     vars |-> entryState.vars, turnIndex |-> entryState.turnIndex + 1]

\* C23: with n >= 2 choices chooseBranchIndex saves the state once, probes
\* the indices 0..n-1 in ascending order, each ChooseChoiceIndex applied to
\* the state it was entered in (directly for index 0, after a LoadJson of
\* the saved state for the others), records for index k the start line of
\* the location choosing k produced where there is one with a start line,
\* and makes n ChooseChoiceIndex and n LoadJson calls in all.
C23_ProbesEveryBranchFromSavedState ==
    /\ [](pc = "probe" =>
            /\ Len(choices) >= 2
            /\ savedState = ToJson([story EXCEPT !.state = entryState])
            /\ Len(branchStartLines) = i
            /\ probeLog = SubSeq(ProbeCalls(Len(choices)), 1, IF i = 0 THEN 1 ELSE 2 * i)
            /\ \A k \in 0..(i - 1) :
                    (ProducedBy(k).present /\ ProducedBy(k).startLineNumber >= 1)
                        => branchStartLines[k + 1] =
                                RecordedLine(FALSE, ProducedBy(k).startLineNumber))
    /\ [][(pc = "probe" /\ i' # i) =>
            /\ i' = i + 1
            /\ story'.state = ChosenAtEntry(i)]_vars
    /\ []((pc = "commit" /\ Len(choices) >= 2) =>
            /\ probeLog = ProbeCalls(Len(choices))
            /\ Count(probeLog, "ToJson") = 1
            /\ Count(probeLog, "ChooseChoiceIndex") = Len(choices)
            /\ Count(probeLog, "LoadJson") = Len(choices)
            /\ Len(branchStartLines) = Len(choices)
            /\ \A k \in 0..(Len(choices) - 1) :
                    (ProducedBy(k).present /\ ProducedBy(k).startLineNumber >= 1)
                        => branchStartLines[k + 1] =
                                RecordedLine(FALSE, ProducedBy(k).startLineNumber))

\* Three choices were probed: the lines of the three branches are
\* recorded and the state is the one saved.
C23_Witness ==
    /\ pc = "commit"
    /\ Len(choices) = 3
    /\ branchStartLines =
            <<RecordedLine(FALSE, 1), RecordedLine(FALSE, 2), RecordedLine(FALSE, 3)>>
    /\ Len(probeLog) = 7
    /\ story.state = entryState

\* No branch probed has a recorded start line at or before the cursor
\* line.
NoneAtOrBefore ==
    \A j \in 1..Len(branchStartLines) :
        branchStartLines[j].inf \/ branchStartLines[j].n > cursorLine

\* C24: a branch whose probe produced no debug location is recorded with
\* the start line +infinity, and chooseBranchIndex returns its index only
\* when it is index 0 and no branch has a recorded start line at or
\* before the cursor line.
C24_UnlocatedBranchOnlyByDefault ==
    (pc = "commit" /\ Len(choices) >= 2) =>
        \A k \in 0..(Len(choices) - 1) :
            ~ProducedBy(k).present =>
                /\ branchStartLines[k + 1] = Infinity
                /\ idx = k => (k = 0 /\ NoneAtOrBefore)

\* The last of three branches has no location and the cursor line is past
\* every line recorded: the branch before it is returned.
C24_Witness ==
    /\ pc = "commit"
    /\ Len(choices) = 3
    /\ ProducedBy(1).present
    /\ ProducedBy(1).startLineNumber >= 1
    /\ ~ProducedBy(2).present
    /\ cursorLine > ProducedBy(1).startLineNumber
    /\ idx = 1

\* The first of the branches has no location and none has a line at or
\* before the cursor line: index 0 is returned.
C24_WitnessDefault ==
    /\ pc = "commit"
    /\ Len(choices) >= 2
    /\ ~ProducedBy(0).present
    /\ NoneAtOrBefore
    /\ idx = 0

\* An iteration of runToCursor is about to run and its reads answer.
IterationBegins == pc = "loop" /\ StepsLeft(steps) /\ ReadsAnswer(story)

\* C25: chooseBranchIndex is entered only where the engine cannot continue
\* and offers at least one choice; where the engine can continue the
\* iteration calls Continue, choices offered or not, and chooses nothing.
C25_ChoosesOnlyWhenStopped ==
    /\ [][(pc = "loop" /\ pc' \in {"probe", "commit"}) =>
            /\ ~canContinue(story)
            /\ Len(currentChoices(story)) > 0
            /\ choices' = currentChoices(story)]_vars
    /\ [][(IterationBegins /\ canContinue(story)) =>
            /\ pc' \in {"loop", "done"}
            /\ choices' = choices
            /\ probeLog' = probeLog
            /\ nCommit' = nCommit
            /\ \/ ContinueRaises(story) /\ exit' = "exception"
               \/ story'.state = Continue(story).state /\ nContinue' = nContinue + 1]_vars

\* The first unit of the story offered two choices and was continued: no
\* choice has been made and the engine is at the choice point.
C25_Witness ==
    /\ pc = "loop"
    /\ Len(story.prog) >= 2
    /\ story.prog[1].kind = "text"
    /\ Len(story.prog[1].branches) = 2
    /\ nContinue = 1
    /\ nCommit = 0
    /\ probeLog = <<>>
    /\ story.state.pos = 2

\* C26: an iteration of runToCursor that chooses ends in the state it
\* began in with ChooseChoiceIndex(idx) applied once, idx being what
\* chooseBranchIndex returned; the choices committed stay made for the
\* rest of the run (the engine's turn counter equals their number at
\* every iteration), and the iteration takes no snapshot of the variables.
C26_CommitsOnceForGood ==
    /\ [][(pc = "commit" /\ pc' = "loop") =>
            /\ story'.state = ChosenAtEntry(idx)
            /\ nCommit' = nCommit + 1
            /\ steps' = steps]_vars
    /\ [](pc \in {"loop", "commit"} => story.state.turnIndex = nCommit)
    /\ [](pc = "commit" => story.state = entryState)
    /\ [][(pc \in {"probe", "commit"} \/ pc' \in {"probe", "commit"}) =>
            /\ lastVars' = lastVars
            /\ prevVars' = prevVars
            /\ afterContinue' = afterContinue
            /\ nContinue' = nContinue
            /\ view'.call # "updateScene"]_vars

\* Two choices have been committed in the run, the second to the branch
\* of index 1, and the run went on.
C26_Witness ==
    /\ pc = "loop"
    /\ nCommit = 2
    /\ idx = 1
    /\ Len(choices) >= 2
    /\ story.state = ChosenAtEntry(1)
    /\ story.state.turnIndex = 2

\* C27: an evaluation, from the call of evaluateAtLine to its return,
\* makes one call to the SceneView: clear for no project or a project
\* without main file, showError for a compilation that fails or an
\* exception while stepping, updateScene with the snapshot otherwise.
C27_OnePresentationCall ==
    /\ [](pc # "done" => viewCalls = 0)
    /\ [](pc = "done" =>
            /\ viewCalls = 1
            /\ exit \in {"noproject", "compile", "exception", "probing",
                         "reached", "end", "budget"}
            /\ view.call = (CASE exit = "noproject" -> "clear"
                              [] exit \in {"compile", "exception", "probing"} -> "showError"
                              [] OTHER -> "updateScene")
            /\ exit = "noproject" <=> ~project.loaded
            /\ exit = "compile" <=> CompileFails)
    /\ [][viewCalls' # viewCalls => (viewCalls' = viewCalls + 1 /\ pc' = "done")]_vars

\* An evaluation that continued, then met an engine call that raised:
\* showError is its one call.
C27_Witness ==
    /\ pc = "done"
    /\ exit = "exception"
    /\ nContinue >= 1
    /\ viewCalls = 1
    /\ view.call = "showError"

\* C28: at most one timer is pending, and it is the one debounceTimer
\* names; a request made with no project or no active file clears the
\* timer pending, calls clear() at once and sets no timer, and no
\* evaluation ever runs for the request whose timer it cleared.
C28_OneTimerClearedByEmptyRequest ==
    /\ [](Cardinality(timeouts) <= 1)
    /\ [](\A t \in timeouts : debounceTimer = t.id)
    /\ [][Len(reqLog') > Len(reqLog) =>
            (~reqLog'[Len(reqLog')].project.active =>
                /\ timeouts' = {}
                /\ view' = clear
                /\ pc' = "idle"
                /\ evalLog' = evalLog)]_vars
    /\ [](\A k \in 1..Len(reqLog) :
            (k > 1 /\ reqLog[k].supersedes = k - 1) => RunsFor(k - 1) = {})

\* A request with an active file was followed, before its timer fired, by
\* a request without project: no timer is pending, the view is cleared and
\* nothing was evaluated.
C28_Witness ==
    /\ pc = "idle"
    /\ Len(reqLog) = 2
    /\ reqLog[1].project.active
    /\ ~reqLog[2].project.active
    /\ reqLog[2].supersedes = 1
    /\ timeouts = {}
    /\ evalLog = <<>>
    /\ view = clear

\* The index the start lines the branches' locations carry and the cursor
\* line determine: the highest among those of a branch starting at or
\* before the cursor line, 0 if there is none.
LineOnlyIndex ==
    LET S == {k \in 0..(Len(choices) - 1) :
                /\ ProducedBy(k).present
                /\ ProducedBy(k).startLineNumber >= 1
                /\ ProducedBy(k).startLineNumber <= cursorLine}
    IN IF S = {} THEN 0 ELSE Max(S)

\* The location dm with the file identity file.
InFile(dm, file) == [dm EXCEPT !.fileName = file, !.sourceName = file]

\* What chooseBranchIndex returns for the cursor line when every branch's
\* location carries the file identity file.
IndexWithBranchesIn(file) ==
    BestBranch([k \in 1..Len(choices) |-> StartLineOf(InFile(choices[k].dm, file))],
               cursorLine)

\* C29: the index chooseBranchIndex returns is determined by the start
\* lines of the branches' locations and the cursor line: it is the same
\* whatever the cursor's file path and whatever file the locations name,
\* so a branch in another file than the cursor's is chosen by its line.
C29_IndexIgnoresFiles ==
    (pc = "commit" /\ Len(choices) >= 2) =>
        /\ idx = LineOnlyIndex
        /\ \A file \in BranchFiles \cup CursorFiles : idx = IndexWithBranchesIn(file)

\* The cursor is in file a, the second branch begins in file b at or
\* before the cursor line, and it is the branch returned.
C29_Witness ==
    /\ pc = "commit"
    /\ Len(choices) = 2
    /\ cursorFilePath = PathA
    /\ ProducedBy(1).fileName = PathB
    /\ ~fileMatchesCursor(ProducedBy(1), cursorFilePath)
    /\ ProducedBy(1).startLineNumber <= cursorLine
    /\ idx = 1

\* The element is in the page and does not carry the class "hidden".
Visible(e) == e.present /\ ~e.hidden

\* C30: on a page with both elements, after any calls of updateScene,
\* showError and clear, the error banner and the panel of variables are
\* never visible together: the banner is visible exactly when the last
\* call was showError, the panel exactly when it was updateScene or clear.
C30_BannerAndPanelExclusive ==
    (dom.el.present /\ dom.errEl.present /\ view.call # "none") =>
        /\ ~(Visible(dom.errEl) /\ Visible(dom.el))
        /\ Visible(dom.errEl) <=> view.call = "showError"
        /\ Visible(dom.el) <=> view.call \in {"updateScene", "clear"}

\* showError was called last, without message, on a page with both
\* elements: the banner shows "Unknown error" and the panel is hidden and
\* empty.
C30_Witness ==
    /\ view = showError(NoMessage)
    /\ dom.el = Element(TRUE, TRUE, Blank)
    /\ dom.errEl.present
    /\ Visible(dom.errEl)
    /\ dom.errEl.content.text = <<"Unknown error">>

\* ---------------------------------------------------------------------- C31
\* The parts of the registry's contract that hold after every call:
\* registryLoaded is true exactly when loadError is null, the asset map is
\* empty whenever registryLoaded is false, resolveAssetPath answers null
\* for the empty id and for an unregistered id that Object.prototype does
\* not define, and the path of the last res:// entry for a registered one.
RegistryCoherent ==
    /\ registryLoaded <=> loadError.isNull
    /\ ~registryLoaded => assetMap = NoAssets
    /\ asked.fn \in {"resolveAssetPath", "getLoadError"} /\ ~asked.loadedBefore
        => asked.reloaded
    /\ asked.fn = "resolveAssetPath" /\ asked.assetId = ""
        => asked.answer = Null
    /\ asked.fn = "resolveAssetPath" /\ ~asked.registered
                                     /\ asked.assetId \notin ObjectPrototype
        => asked.answer = Null
    /\ asked.fn = "resolveAssetPath" /\ asked.registered
        => asked.answer.kind = "path"

\* While the registry has not loaded, a call of resolveAssetPath or of
\* getLoadError leaves the module as reloadRegistry leaves it on the disk
\* of that moment.
ReloadsWhileNotLoaded ==
    [][~registryLoaded /\ (ResolveAssetPath \/ GetLoadError)
        => /\ assetMap' = Reloaded(disk, NoAssets).assetMap
           /\ registryLoaded' = Reloaded(disk, NoAssets).registryLoaded
           /\ loadError' = Reloaded(disk, NoAssets).loadError]_vars

\* C31: after any sequence of reloadRegistry, resolveAssetPath and
\* getLoadError calls registryLoaded is true exactly when loadError is
\* null, the asset map is empty whenever registryLoaded is false, and
\* resolveAssetPath has returned null for an empty or unregistered asset
\* id; a resolveAssetPath or getLoadError call that found the registry not
\* loaded attempted the load again.
C31_RegistryAsClaimed ==
    /\ registryLoaded <=> loadError.isNull
    /\ ~registryLoaded => assetMap = NoAssets
    /\ asked.fn = "resolveAssetPath"
        /\ (asked.assetId = "" \/ ~asked.registered)
        => asked.answer = Null
    /\ asked.fn \in {"resolveAssetPath", "getLoadError"} /\ ~asked.loadedBefore
        => asked.reloaded

\* The registry has loaded a file that registers bg1, and resolveAssetPath
\* was then asked for an id the file does not register.
C31_Reached ==
    /\ registryLoaded
    /\ "bg1" \in DOMAIN assetMap
    /\ asked.fn = "resolveAssetPath"
    /\ asked.assetId = "constructor"
    /\ ~asked.registered

====
